---- MODULE Spec2Model ----
(***************************************************************************)
(* The widget-tree runtime of druid's core.rs: WidgetPod (the tree node    *)
(* wrapper), BaseState (its bookkeeping state), the pass contexts and the  *)
(* four traversal passes (event, lifecycle, update, paint).                *)
(*                                                                         *)
(* A pass is one synchronous depth-first recursion, so each pass is one    *)
(* action.  The widgets wrapped by the pods are external code: what a      *)
(* widget does inside a handler (which context methods it calls, whether   *)
(* it forwards to its child pods) is given by the kind of the widget.      *)
(* Every delivery to a widget and every pod call is recorded in log, in    *)
(* call order, so that ordering properties inside a pass can be stated.    *)
(***************************************************************************)
EXTENDS Integers, Sequences, FiniteSets, TLC

VARIABLES
    tree,           \* static shape: tree[n] = parent pod of pod n, 0 for the root pod
    widget,         \* WidgetPod.inner: the kind of widget each pod wraps
    state,          \* state[n] = BaseState of pod n; state[0] = BaseState of the host's root context
    old_data,       \* WidgetPod.old_data of each pod (None or a data value)
    env,            \* WidgetPod.env of each pod (None or an environment value)
    command_queue,  \* the shared CommandQueue: sequence of <<target, command>>
    focus_widget,   \* the host's focused widget id (NoId = None)
    surface,        \* render surface: stack of saved transforms and current transform
    log,            \* what happened during the last pass, in call order
    ret             \* the last pass: its kind, arguments and the context handed back

vars == <<tree, widget, state, old_data, env, command_queue, focus_widget, surface, log, ret>>

(***************************************************************************)
(* Values                                                                  *)
(***************************************************************************)
\* Option::None for old_data / env
None == -1
\* Option<WidgetId>::None
NoId == 0
\* the id of the one window
TheWindow == 100

Nodes == 1 .. Len(tree)
Root == 1

\* child pods of pod n, in the order the container dispatches to them
Children(n) ==
    LET RECURSIVE Collect(_)
        Collect(m) == IF m > Len(tree) THEN <<>>
                      ELSE (IF tree[m] = n THEN <<m>> ELSE <<>>) \o Collect(m + 1)
    IN Collect(2)

RECURSIVE Descendants(_)
Descendants(n) ==
    LET kids == {m \in Nodes : tree[m] = n}
    IN kids \cup UNION {Descendants(k) : k \in kids}

IsLeaf(n) == \A m \in Nodes : tree[m] # n

RECURSIVE Ancestors(_)
Ancestors(n) == IF tree[n] = 0 THEN {} ELSE {tree[n]} \cup Ancestors(tree[n])

\* kurbo::Rect and kurbo::Point, integer coordinates
MkRect(x0, y0, x1, y1) == [x0 |-> x0, y0 |-> y0, x1 |-> x1, y1 |-> y1]
RectZero == MkRect(0, 0, 0, 0)
Pt(x, y) == [x |-> x, y |-> y]

Min(a, b) == IF a < b THEN a ELSE b
Max(a, b) == IF a > b THEN a ELSE b

\* kurbo Rect::winding(pt) != 0: half-open containment
Winding(r, p) ==
    LET xmin == Min(r.x0, r.x1)
        xmax == Max(r.x0, r.x1)
        ymin == Min(r.y0, r.y1)
        ymax == Max(r.y0, r.y1)
    IN p.x >= xmin /\ p.x < xmax /\ p.y >= ymin /\ p.y < ymax

\* kurbo Rect::intersect: never a negative width or height
RectIntersect(a, b) ==
    LET x0 == Max(a.x0, b.x0)
        y0 == Max(a.y0, b.y0)
        x1 == Min(a.x1, b.x1)
        y1 == Min(a.y1, b.y1)
    IN MkRect(x0, y0, Max(x1, x0), Max(y1, y0))

RectArea(r) == (r.x1 - r.x0) * (r.y1 - r.y0)

\* Rect - Vec2
RectSub(r, v) == MkRect(r.x0 - v.x, r.y0 - v.y, r.x1 - v.x, r.y1 - v.y)
RectOrigin(r) == Pt(r.x0, r.y0)

(***************************************************************************)
(* Bloom<WidgetId>: crate::bloom is not part of the given source; modelled *)
(* from the specification: approximate set, no false negatives, a count of *)
(* the entries added.                                                      *)
(***************************************************************************)
BloomHash(id) == {id % 5, 5 + (id % 3)}
BloomNew == [bits |-> {}, count |-> 0]
BloomAdd(b, id) == [bits |-> b.bits \cup BloomHash(id), count |-> b.count + 1]
BloomContains(b, id) == BloomHash(id) \subseteq b.bits
BloomUnion(a, b) == [bits |-> a.bits \cup b.bits, count |-> a.count + b.count]
BloomEntryCount(b) == b.count

(***************************************************************************)
(* FocusChange and BaseState                                               *)
(***************************************************************************)
NoFocusChange == [kind |-> "None", id |-> NoId]
FocusResign == [kind |-> "Resign", id |-> NoId]
FocusFocus(id) == [kind |-> "Focus", id |-> id]
FocusNext == [kind |-> "Next", id |-> NoId]
FocusPrevious == [kind |-> "Previous", id |-> NoId]

\* BaseState::new
BaseStateNew(id) ==
    [id |-> id,
     layout_rect |-> RectZero,
     needs_inval |-> FALSE,
     is_hot |-> FALSE,
     is_active |-> FALSE,
     has_active |-> FALSE,
     request_anim |-> FALSE,
     request_timer |-> FALSE,
     request_focus |-> NoFocusChange,
     children |-> BloomNew,
     children_changed |-> FALSE]

\* Option::or on request_focus
\* an or that prefers the later request
FocusOrLast(a, b) == IF b.kind # "None" THEN b ELSE a

FocusOr(a, b) == IF a.kind # "None" THEN a ELSE b

\* a merge_up that leaves the timer flag behind
MergeUpNoTimer(self, child) ==
    [self EXCEPT
        !.needs_inval = self.needs_inval \/ child.needs_inval,
        !.request_anim = self.request_anim \/ child.request_anim,
        !.is_hot = self.is_hot \/ child.is_hot,
        !.has_active = self.has_active \/ child.has_active,
        !.children_changed = self.children_changed \/ child.children_changed,
        !.request_focus = FocusOr(self.request_focus, child.request_focus)]

\* BaseState::merge_up
MergeUp(self, child) ==
    [self EXCEPT
        !.needs_inval = self.needs_inval \/ child.needs_inval,
        !.request_anim = self.request_anim \/ child.request_anim,
        !.request_timer = self.request_timer \/ child.request_timer,
        !.is_hot = self.is_hot \/ child.is_hot,
        !.has_active = self.has_active \/ child.has_active,
        !.children_changed = self.children_changed \/ child.children_changed,
        !.request_focus = FocusOr(self.request_focus, child.request_focus)]

(***************************************************************************)
(* Events, lifecycle events, targets                                       *)
(***************************************************************************)
TargetWindow(w) == [t |-> "Window", id |-> w]
TargetWidget(id) == [t |-> "Widget", id |-> id]
NoTarget == [t |-> "None", id |-> 0]

Ev(kind) == [kind |-> kind, pos |-> Pt(0, 0), target |-> NoTarget, cmd |-> 0]
EvSize == Ev("Size")
EvMouseDown(p) == [Ev("MouseDown") EXCEPT !.pos = p]
EvMouseUp(p) == [Ev("MouseUp") EXCEPT !.pos = p]
EvMouseMoved(p) == [Ev("MouseMoved") EXCEPT !.pos = p]
EvKeyDown == Ev("KeyDown")
EvKeyUp == Ev("KeyUp")
EvPaste == Ev("Paste")
EvWheel == Ev("Wheel")
EvZoom == Ev("Zoom")
EvTimer == Ev("Timer")
EvCommand(c) == [Ev("Command") EXCEPT !.cmd = c]
EvTargetedCommand(t, c) == [Ev("TargetedCommand") EXCEPT !.target = t, !.cmd = c]

Lc(kind) == [kind |-> kind, b |-> FALSE, old |-> NoId, new |-> NoId]
LcWidgetAdded == Lc("WidgetAdded")
LcAnimFrame == Lc("AnimFrame")
LcRegister == Lc("Register")
LcHotChanged(b) == [Lc("HotChanged") EXCEPT !.b = b]
LcFocusChanged(b) == [Lc("FocusChanged") EXCEPT !.b = b]
LcRouteFocusChanged(old, new) == [Lc("RouteFocusChanged") EXCEPT !.old = old, !.new = new]

(***************************************************************************)
(* The data capability: clone keeps the value, same() is the equality the  *)
(* application data type provides (coarser than identity of the value).    *)
(***************************************************************************)
DataSame(a, b) == (a \div 2) = (b \div 2)
EnvSame(a, b) == a = b

(***************************************************************************)
(* What widgets do, and the log                                            *)
(***************************************************************************)
\* one call of a context method by a widget
Call(op) == [op |-> op, b |-> FALSE, cmd |-> 0, target |-> NoTarget]
CallSetActive(b) == [Call("set_active") EXCEPT !.b = b]
CallSubmit(c, t) == [Call("submit_command") EXCEPT !.cmd = c, !.target = t]

\* what a widget does in one handler: context calls, forwarding to all its
\* child pods in order, more context calls
Beh(pre, fwd, post) == [pre |-> pre, fwd |-> fwd, post |-> post]
Forwarding == Beh(<<>>, TRUE, <<>>)

\* a log entry: t is the kind of entry, node the pod, ev the event (or call),
\* flag a boolean, id a widget id or a number
Entry(t, node, ev, flag, id) == [t |-> t, node |-> node, ev |-> ev, flag |-> flag, id |-> id]
\* the entry of a pod call or of its return: st is the pod's BaseState then
PodEntry(t, node, ev, flag, id, st) ==
    [t |-> t, node |-> node, ev |-> ev, flag |-> flag, id |-> id, st |-> st]
Logged(w, e) == [w EXCEPT !.log = Append(w.log, e)]

\* the mutable world a pass threads through the recursion
World == [state |-> state, old_data |-> old_data, env |-> env,
          command_queue |-> command_queue, surface |-> surface, log |-> <<>>]

Out(w, ctx) == [w |-> w, ctx |-> ctx]

(***************************************************************************)
(* The widgets.  Widget implementations are outside the core; a widget is  *)
(* modelled by its kind, which fixes the context methods its handlers call *)
(* and whether it forwards to its child pods.                              *)
(*   Passive    forwards every event, calls nothing                        *)
(*   Button     set_active(true) on MouseDown, set_active(false) on        *)
(*              MouseUp, invalidating both times                           *)
(*   Opaque     marks every event it gets handled                          *)
(*   TextBox    takes focus on MouseDown, focus_next on KeyDown, registers *)
(*              for focus                                                  *)
(*   Submitter  submits commands from its event and lifecycle handlers     *)
(*   Mute       a container that forwards no event                         *)
(*   Eager      a container that paints its children even when they are    *)
(*              outside the visible region                                 *)
(*   Ticker     requests a timer on MouseDown and marks the Timer event it *)
(*              gets handled                                               *)
(*   Clock      requests a timer on MouseDown and forwards every event     *)
(*   Animator   requests an animation frame on MouseDown                   *)
(*   Spinner    requests an animation frame on MouseDown and another one   *)
(*              on every AnimFrame it gets                                 *)
(*   Late       a container that forwards first and then registers for     *)
(*              focus (on Register) or invalidates (on update)             *)
(*   Grabber    takes focus on every command it gets, then forwards        *)
(*   Grower     invalidates and reports changed children from its          *)
(*              lifecycle and update handlers, around the forwarding       *)
(***************************************************************************)
WidgetEventBeh(n, event) ==
    LET k == widget[n]
    IN CASE k = "Button" /\ event.kind = "MouseDown" ->
                Beh(<<CallSetActive(TRUE), Call("invalidate")>>, TRUE, <<>>)
         [] k = "Button" /\ event.kind = "MouseUp" ->
                Beh(<<CallSetActive(FALSE), Call("invalidate")>>, TRUE, <<>>)
         [] k = "Opaque" -> Beh(<<Call("set_handled")>>, TRUE, <<>>)
         [] k = "TextBox" /\ event.kind = "MouseDown" -> Beh(<<Call("request_focus")>>, TRUE, <<>>)
         [] k = "TextBox" /\ event.kind = "KeyDown" -> Beh(<<Call("focus_next")>>, TRUE, <<>>)
         [] k = "TextBox" /\ event.kind \in {"KeyUp", "Paste"} -> Beh(<<Call("invalidate")>>, TRUE, <<>>)
         [] k = "Submitter" ->
                Beh(<<CallSubmit(n, NoTarget)>>, TRUE, <<CallSubmit(10 + n, TargetWidget(n))>>)
         [] k = "Mute" -> Beh(<<>>, FALSE, <<>>)
         [] k = "Grabber" /\ event.kind = "Command" -> Beh(<<Call("request_focus")>>, TRUE, <<>>)
         [] k = "Clock" /\ event.kind = "MouseDown" -> Beh(<<Call("request_timer")>>, TRUE, <<>>)
         [] k = "Ticker" /\ event.kind = "MouseDown" -> Beh(<<Call("request_timer")>>, TRUE, <<>>)
         [] k = "Ticker" /\ event.kind = "Timer" -> Beh(<<Call("set_handled")>>, TRUE, <<>>)
         [] k \in {"Animator", "Spinner"} /\ event.kind = "MouseDown" ->
                Beh(<<Call("request_anim_frame")>>, TRUE, <<>>)
         [] OTHER -> Forwarding

WidgetLifecycleBeh(n, event) ==
    LET k == widget[n]
    IN CASE k = "TextBox" /\ event.kind = "Register" -> Beh(<<Call("register_for_focus")>>, TRUE, <<>>)
         [] k = "Submitter" /\ event.kind \in {"HotChanged", "WidgetAdded"} ->
                Beh(<<CallSubmit(20 + n, NoTarget)>>, TRUE, <<>>)
         [] k = "Mute" -> Beh(<<>>, FALSE, <<>>)
         [] k = "Spinner" /\ event.kind = "AnimFrame" ->
                Beh(<<Call("request_anim_frame")>>, TRUE, <<>>)
         [] k = "Late" /\ event.kind = "Register" ->
                Beh(<<>>, TRUE, <<Call("register_for_focus")>>)
         [] k = "Grower" -> Beh(<<Call("invalidate")>>, TRUE, <<Call("children_changed")>>)
         [] OTHER -> Forwarding

WidgetUpdateBeh(n) ==
    LET k == widget[n]
    IN CASE k \in {"Button", "TextBox"} -> Beh(<<Call("invalidate")>>, TRUE, <<>>)
         [] k = "Submitter" -> Beh(<<Call("children_changed")>>, TRUE, <<>>)
         [] k = "Mute" -> Beh(<<>>, FALSE, <<>>)
         [] k = "Late" -> Beh(<<>>, TRUE, <<Call("invalidate")>>)
         [] k = "Grower" -> Beh(<<Call("children_changed")>>, TRUE, <<Call("invalidate")>>)
         [] OTHER -> Forwarding

\* a container paints its children with paint_with_offset, an Eager one with
\* paint_with_offset_always
WidgetPaintBeh(n) == [fwd |-> TRUE, always |-> widget[n] = "Eager"]

(***************************************************************************)
(* EventCtx                                                                *)
(***************************************************************************)
\* an EventCtx: base names the BaseState it borrows (state[base])
EventCtx(base, had_active, is_root, focus, window_id) ==
    [base |-> base, had_active |-> had_active, is_handled |-> FALSE,
     is_root |-> is_root, focus_widget |-> focus, window_id |-> window_id]

EventCtxWidgetId(w, ctx) == w.state[ctx.base].id

EventCtxInvalidate(w, ctx) == Out([w EXCEPT !.state[ctx.base].needs_inval = TRUE], ctx)

EventCtxChildrenChanged(w, ctx) == Out([w EXCEPT !.state[ctx.base].children_changed = TRUE], ctx)

EventCtxSetActive(w, ctx, active) == Out([w EXCEPT !.state[ctx.base].is_active = active], ctx)

EventCtxSetHandled(w, ctx) == Out(w, [ctx EXCEPT !.is_handled = TRUE])

\* a has_focus that forgets the registered child set
HasFocusSelfOnly(st, focus) == focus = st.id

\* EventCtx::has_focus on a context over BaseState st
HasFocus(st, focus) ==
    LET is_child == focus # NoId /\ BloomContains(st.children, focus)
    IN is_child \/ focus = st.id

EventCtxRequestFocus(w, ctx) ==
    Out([w EXCEPT !.state[ctx.base].request_focus = FocusFocus(EventCtxWidgetId(w, ctx))], ctx)

\* a focus method that any widget may call
FocusUnguarded(w, ctx, change) == Out([w EXCEPT !.state[ctx.base].request_focus = change], ctx)

\* focus_next, focus_prev, resign_focus: only the focused widget may ask
FocusGuarded(w, ctx, change) ==
    IF ctx.focus_widget = EventCtxWidgetId(w, ctx)
    THEN Out([w EXCEPT !.state[ctx.base].request_focus = change], ctx)
    ELSE Out(w, ctx)

EventCtxFocusNext(w, ctx) == FocusGuarded(w, ctx, FocusNext)
EventCtxFocusPrev(w, ctx) == FocusGuarded(w, ctx, FocusPrevious)
EventCtxResignFocus(w, ctx) == FocusGuarded(w, ctx, FocusResign)

EventCtxRequestAnimFrame(w, ctx) ==
    Out([w EXCEPT !.state[ctx.base].request_anim = TRUE,
                  !.state[ctx.base].needs_inval = TRUE], ctx)

EventCtxRequestTimer(w, ctx) == Out([w EXCEPT !.state[ctx.base].request_timer = TRUE], ctx)

\* a submit_command that pushes to the front of the queue
SubmitCommandFront(queue, window_id, cmd, target) ==
    LET t == IF target.t = "None" THEN TargetWindow(window_id) ELSE target
    IN <<(<<t, cmd>>)>> \o queue

\* submit_command of EventCtx and of LifeCycleCtx: the same body
SubmitCommand(queue, window_id, cmd, target) ==
    LET t == IF target.t = "None" THEN TargetWindow(window_id) ELSE target
    IN Append(queue, <<t, cmd>>)

EventCtxSubmitCommand(w, ctx, cmd, target) ==
    Out([w EXCEPT !.command_queue = SubmitCommand(@, ctx.window_id, cmd, target)], ctx)

\* EventCtx::make_lifecycle_ctx
MakeLifecycleCtx(w, ctx) ==
    [children |-> BloomNew,
     focus_widgets |-> <<>>,
     children_changed |-> FALSE,
     needs_inval |-> FALSE,
     request_anim |-> FALSE,
     window_id |-> ctx.window_id,
     widget_id |-> EventCtxWidgetId(w, ctx)]

\* the context method a call names, on the widget's EventCtx
EventCallDo(w, ctx, c) ==
    CASE c.op = "invalidate" -> EventCtxInvalidate(w, ctx)
      [] c.op = "children_changed" -> EventCtxChildrenChanged(w, ctx)
      [] c.op = "set_active" -> EventCtxSetActive(w, ctx, c.b)
      [] c.op = "set_handled" -> EventCtxSetHandled(w, ctx)
      [] c.op = "request_focus" -> EventCtxRequestFocus(w, ctx)
      [] c.op = "focus_next" -> EventCtxFocusNext(w, ctx)
      [] c.op = "focus_prev" -> EventCtxFocusPrev(w, ctx)
      [] c.op = "resign_focus" -> EventCtxResignFocus(w, ctx)
      [] c.op = "request_anim_frame" -> EventCtxRequestAnimFrame(w, ctx)
      [] c.op = "request_timer" -> EventCtxRequestTimer(w, ctx)
      [] c.op = "submit_command" -> EventCtxSubmitCommand(w, ctx, c.cmd, c.target)
      [] OTHER -> Out(w, ctx)

\* one context call made by the widget of pod n inside its event handler;
\* r holds the world and the widget's context
EventCall(r, n, c) ==
    EventCallDo(Logged(r.w, Entry("call", n, c, r.ctx.is_handled, EventCtxWidgetId(r.w, r.ctx))),
                r.ctx, c)

RECURSIVE EventCalls(_, _, _)
EventCalls(r, n, cs) ==
    IF cs = <<>> THEN r ELSE EventCalls(EventCall(r, n, Head(cs)), n, Tail(cs))

(***************************************************************************)
(* LifeCycleCtx                                                            *)
(***************************************************************************)
LifeCycleCtxInvalidate(ctx) == [ctx EXCEPT !.needs_inval = TRUE]

LifeCycleCtxWidgetId(ctx) == ctx.widget_id

\* a register_child that drops the id
RegisterChildDropped(ctx, child_id) == ctx

\* LifeCycleCtx::register_child
RegisterChild(ctx, child_id) == [ctx EXCEPT !.children = BloomAdd(@, child_id)]

RegisterForFocus(ctx) == [ctx EXCEPT !.focus_widgets = Append(@, ctx.widget_id)]

LifeCycleCtxChildrenChanged(ctx) == [ctx EXCEPT !.children_changed = TRUE]

LifeCycleCtxRequestAnimFrame(ctx) == [ctx EXCEPT !.request_anim = TRUE]

LifeCycleCtxSubmitCommand(w, ctx, cmd, target) ==
    Out([w EXCEPT !.command_queue = SubmitCommand(@, ctx.window_id, cmd, target)], ctx)

\* the context method a call names, on the widget's LifeCycleCtx
LifeCycleCallDo(w, ctx, c) ==
    CASE c.op = "invalidate" -> Out(w, LifeCycleCtxInvalidate(ctx))
      [] c.op = "children_changed" -> Out(w, LifeCycleCtxChildrenChanged(ctx))
      [] c.op = "register_for_focus" -> Out(w, RegisterForFocus(ctx))
      [] c.op = "request_anim_frame" -> Out(w, LifeCycleCtxRequestAnimFrame(ctx))
      [] c.op = "submit_command" -> LifeCycleCtxSubmitCommand(w, ctx, c.cmd, c.target)
      [] OTHER -> Out(w, ctx)

\* one context call made by the widget of pod n inside its lifecycle handler
LifeCycleCall(r, n, c) ==
    LifeCycleCallDo(Logged(r.w, Entry("lc_call", n, c, FALSE, LifeCycleCtxWidgetId(r.ctx))),
                    r.ctx, c)

RECURSIVE LifeCycleCalls(_, _, _)
LifeCycleCalls(r, n, cs) ==
    IF cs = <<>> THEN r ELSE LifeCycleCalls(LifeCycleCall(r, n, Head(cs)), n, Tail(cs))

(***************************************************************************)
(* WidgetPod::event and WidgetPod::lifecycle                               *)
(***************************************************************************)
\* a pod that lacks the early return of lines 279-284
HandledReturnNever(ctx) == FALSE

\* line 279: the early return on an already handled context
HandledReturn(ctx) == ctx.is_handled

\* lines 307-314 and 319-320: gating of MouseDown and MouseUp
RecurseMouseButton(had_active, ctx_had_active, in_rect) ==
    had_active \/ (~ctx_had_active /\ in_rect)

\* line 331: gating of MouseMoved
RecurseMouseMoved(had_active, had_hot, is_hot) == had_active \/ had_hot \/ is_hot

\* a gate that lets every targeted command through
RecurseTargetedAlways(st, id) == TRUE

\* line 365: gating of a command targeted at another widget
RecurseTargeted(st, id) == BloomContains(st.children, id)

\* a gate that lets every Size through
RecurseSizeAlways(is_root) == TRUE

\* line 304: gating of Size
RecurseSize(is_root) == is_root

\* a gate that lets every Timer through
RecurseTimerAlways(st) == TRUE

\* line 357: gating of Timer
RecurseTimer(st) == st.request_timer

\* lines 298-369: the match on the event.  st is this pod's BaseState, ctx the
\* caller's context.  The result holds recurse, hot_changed (changed, value),
\* the new is_hot and the event handed to the widget.
EventGate(st, ctx, had_active, event) ==
    LET rect == st.layout_rect
        origin == RectOrigin(rect)
        moved == [event EXCEPT !.pos = Pt(event.pos.x - origin.x, event.pos.y - origin.y)]
        now_hot == Winding(rect, event.pos)
        had_hot == st.is_hot
        G(recurse, changed, hot, is_hot, child_event) ==
            [recurse |-> recurse, hot_changed |-> changed, hot |-> hot,
             is_hot |-> is_hot, child_event |-> child_event]
        Plain(recurse) == G(recurse, FALSE, FALSE, had_hot, event)
    IN CASE event.kind = "Size" -> Plain(RecurseSize(ctx.is_root))
         [] event.kind = "MouseDown" ->
                G(RecurseMouseButton(had_active, ctx.had_active, now_hot),
                  (~had_hot) /\ now_hot, TRUE,
                  IF (~had_hot) /\ now_hot THEN TRUE ELSE had_hot, moved)
         [] event.kind = "MouseUp" ->
                G(RecurseMouseButton(had_active, ctx.had_active, now_hot),
                  FALSE, FALSE, had_hot, moved)
         [] event.kind = "MouseMoved" ->
                G(RecurseMouseMoved(had_active, had_hot, now_hot),
                  had_hot # now_hot, now_hot, now_hot, moved)
         [] event.kind \in {"KeyDown", "KeyUp", "Paste"} ->
                Plain(HasFocus(st, ctx.focus_widget))
         [] event.kind \in {"Wheel", "Zoom"} -> Plain(had_active \/ had_hot)
         [] event.kind = "Timer" -> Plain(RecurseTimer(st))
         [] event.kind = "Command" -> Plain(TRUE)
         [] event.kind = "TargetedCommand" ->
                IF event.target.t = "Window" THEN G(TRUE, FALSE, FALSE, had_hot, EvCommand(event.cmd))
                ELSE IF event.target.id = st.id THEN G(TRUE, FALSE, FALSE, had_hot, EvCommand(event.cmd))
                ELSE Plain(RecurseTargeted(st, event.target.id))

\* line 420: old.map(|_| false).or_else(|| new.map(|_| true)); the result
\* is (is Some, value)
ThisChanged(self_id, old, new) ==
    IF old # NoId THEN [some |-> TRUE, change |-> FALSE]
    ELSE IF new # NoId THEN [some |-> TRUE, change |-> TRUE]
    ELSE [some |-> FALSE, change |-> FALSE]

\* lines 426-427: the membership test on the context's child set
RouteContains(ctx, old, new) ==
    (old # NoId /\ BloomContains(ctx.children, old))
        \/ (new # NoId /\ BloomContains(ctx.children, new))

\* In the operators below r is the pair of the world and the caller's
\* context (Out), ps the data and environment of the pass.
RECURSIVE PodEvent(_, _, _, _)
RECURSIVE WidgetEvent(_, _, _, _)
RECURSIVE ForwardEvent(_, _, _, _)
RECURSIVE PodLifecycle(_, _, _, _)
RECURSIVE WidgetLifecycle(_, _, _, _)
RECURSIVE ForwardLifecycle(_, _, _, _)

\* a container handing the event to its child pods, in order
ForwardEvent(r, kids, event, ps) ==
    IF kids = <<>> THEN r
    ELSE ForwardEvent(PodEvent(r, Head(kids), event, ps), Tail(kids), event, ps)

WidgetEventForward(r, n, event, ps, fwd) ==
    IF fwd THEN ForwardEvent(r, Children(n), event, ps) ELSE r

WidgetEventRun(r, n, event, ps, beh) ==
    EventCalls(WidgetEventForward(EventCalls(r, n, beh.pre), n, event, ps, beh.fwd), n, beh.post)

\* Widget::event of the widget wrapped by pod n
WidgetEvent(r, n, event, ps) ==
    WidgetEventRun(
        Out(Logged(r.w, Entry("event", n, event, r.ctx.is_handled, r.ctx.focus_widget)), r.ctx),
        n, event, ps, WidgetEventBeh(n, event))

ForwardLifecycle(r, kids, event, ps) ==
    IF kids = <<>> THEN r
    ELSE ForwardLifecycle(PodLifecycle(r, Head(kids), event, ps), Tail(kids), event, ps)

WidgetLifecycleForward(r, n, event, ps, fwd) ==
    IF fwd THEN ForwardLifecycle(r, Children(n), event, ps) ELSE r

WidgetLifecycleRun(r, n, event, ps, beh) ==
    LifeCycleCalls(WidgetLifecycleForward(LifeCycleCalls(r, n, beh.pre), n, event, ps, beh.fwd),
                   n, beh.post)

\* Widget::lifecycle of the widget wrapped by pod n; the entry's flag is the
\* pod's request_anim when the widget is called
WidgetLifecycle(r, n, event, ps) ==
    WidgetLifecycleRun(
        Out(Logged(r.w, Entry("lifecycle", n, event, r.w.state[n].request_anim, r.ctx.widget_id)),
            r.ctx),
        n, event, ps, WidgetLifecycleBeh(n, event))

\* lines 273-275: after the synthesized WidgetAdded; ra is what the widget's
\* lifecycle call left
EventAddedMerge(ra, n, ps) ==
    [ra.w EXCEPT !.state[n].needs_inval = @ \/ ra.ctx.needs_inval,
                 !.old_data[n] = ps.data,
                 !.env[n] = ps.env]

\* lines 269-276: a pod with no snapshot gets WidgetAdded first
EventAdded(w, ctx, n, ps) ==
    IF w.old_data[n] = None
    THEN EventAddedMerge(WidgetLifecycle(Out(w, MakeLifecycleCtx(w, ctx)), n, LcWidgetAdded, ps),
                         n, ps)
    ELSE w

\* lines 285-297: child_ctx
ChildCtx(w, ctx, n) == EventCtx(n, w.state[n].has_active, FALSE, ctx.focus_widget, ctx.window_id)

\* line 376: the caller's needs_inval takes the lifecycle context's
EventHotMerge(rh, ctx) == [rh.w EXCEPT !.state[ctx.base].needs_inval = @ \/ rh.ctx.needs_inval]

\* a HotChanged that is sent only when the event itself is forwarded
EventHotGated(w, ctx, child_ctx, n, g, ps) ==
    IF g.hot_changed /\ g.recurse
    THEN EventHotMerge(
            WidgetLifecycle(Out(w, MakeLifecycleCtx(w, child_ctx)), n, LcHotChanged(g.hot), ps),
            ctx)
    ELSE w

\* lines 371-377: HotChanged to the widget when the match changed is_hot
EventHot(w, ctx, child_ctx, n, g, ps) ==
    IF g.hot_changed
    THEN EventHotMerge(
            WidgetLifecycle(Out(w, MakeLifecycleCtx(w, child_ctx)), n, LcHotChanged(g.hot), ps),
            ctx)
    ELSE w

\* line 381
EventRecursed(re, n) ==
    Out([re.w EXCEPT !.state[n].has_active = @ \/ re.w.state[n].is_active], re.ctx)

\* lines 378-382: the widget's event handler, under child_ctx
EventRecurse(w, child_ctx, n, g, ps) ==
    IF g.recurse
    THEN EventRecursed(
            WidgetEvent(Out([w EXCEPT !.state[n].has_active = FALSE], child_ctx),
                        n, g.child_event, ps),
            n)
    ELSE Out(w, child_ctx)

\* the return of WidgetPod::event to its caller, whose context is ctx
EventReturn(w, ctx, n, event) ==
    Out(Logged(w, PodEntry("pod_return", n, event, ctx.is_handled, ctx.base, w.state[n])), ctx)

\* lines 384-385: rc holds the world and child_ctx after the recursion
EventMerge(rc, ctx, n, event) ==
    EventReturn([rc.w EXCEPT !.state[ctx.base] = MergeUp(@, rc.w.state[n])],
                [ctx EXCEPT !.is_handled = @ \/ rc.ctx.is_handled],
                n, event)

\* lines 298-385, with g the result of the match on the event
EventGated(w, ctx, child_ctx, n, event, ps, g) ==
    EventMerge(
        EventRecurse(
            EventHot([w EXCEPT !.state[n].is_hot = g.is_hot,
                               !.state[n].needs_inval = FALSE],
                     ctx, child_ctx, n, g, ps),
            child_ctx, n, g, ps),
        ctx, n, event)

\* lines 279-385
EventEntered(w, ctx, n, event, ps) ==
    IF HandledReturn(ctx)
    THEN EventReturn(w, ctx, n, event)
    ELSE EventGated(w, ctx, ChildCtx(w, ctx, n), n, event, ps,
                    EventGate(w.state[n], ctx, w.state[n].has_active, event))

\* WidgetPod::event, lines 265-386.  r.ctx is the caller's EventCtx.
PodEvent(r, n, event, ps) ==
    EventEntered(
        EventAdded(
            Logged(r.w, PodEntry("pod_event", n, event, r.ctx.is_handled, r.ctx.base, r.w.state[n])),
            r.ctx, n, ps),
        r.ctx, n, event, ps)

\* lines 389-398: the context as the pod clears it for its own subtree
LifecycleCleared(ctx, self_id) ==
    [ctx EXCEPT !.widget_id = self_id,
                !.children = BloomNew,
                !.children_changed = FALSE,
                !.needs_inval = FALSE,
                !.request_anim = FALSE]

\* the result of the match of lines 400-435: the world and context it left
\* and whether to recurse
Matched(r, recurse) == [w |-> r.w, ctx |-> r.ctx, recurse |-> recurse]

\* lines 412-413
LifecycleAdded(r, n, ps) == Out([r.w EXCEPT !.old_data[n] = ps.data, !.env[n] = ps.env], r.ctx)

\* lines 420-428
LifecycleRoute(w, ctx, n, event, ps, this_changed) ==
    IF this_changed.some
    THEN Matched(WidgetLifecycle(Out(w, ctx), n, LcFocusChanged(this_changed.change), ps), FALSE)
    ELSE Matched(Out(w, ctx), RouteContains(ctx, event.old, event.new))

\* a pod that keeps its pending focus request
ClearFocusRequestNever(w, n) == w

\* lines 419 and 431: self.state.request_focus = None
ClearFocusRequest(w, n) == [w EXCEPT !.state[n].request_focus = NoFocusChange]

\* a gate that lets every AnimFrame through
RecurseAnimFrameAlways(st) == TRUE

\* lines 402 and 404: AnimFrame goes to the widget when the pod had asked
RecurseAnimFrame(st) == st.request_anim

\* lines 400-435
LifecycleMatch(w, ctx, n, event, ps) ==
    CASE event.kind = "AnimFrame" ->
            Matched(Out([w EXCEPT !.state[n].request_anim = FALSE], ctx),
                    RecurseAnimFrame(w.state[n]))
      [] event.kind = "Register" ->
            IF w.old_data[n] = None
            THEN Matched(LifecycleAdded(WidgetLifecycle(Out(w, ctx), n, LcWidgetAdded, ps), n, ps),
                         TRUE)
            ELSE Matched(Out(w, ctx), TRUE)
      [] event.kind = "HotChanged" -> Matched(Out(w, ctx), FALSE)
      [] event.kind = "RouteFocusChanged" ->
            LifecycleRoute(ClearFocusRequest(w, n), ctx, n, event, ps,
                           ThisChanged(w.state[n].id, event.old, event.new))
      [] event.kind = "FocusChanged" ->
            Matched(Out(ClearFocusRequest(w, n), ctx), TRUE)
      [] OTHER -> Matched(Out(w, ctx), TRUE)

\* lines 437-439
LifecycleRecurse(m, n, event, ps) ==
    IF m.recurse THEN WidgetLifecycle(Out(m.w, m.ctx), n, event, ps) ELSE Out(m.w, m.ctx)

\* a merge that forgets what the caller's context held
LifecycleMergedLost(r, pre, n) ==
    Out([r.w EXCEPT !.state[n].request_anim = r.ctx.request_anim,
                    !.state[n].children_changed = @ \/ r.ctx.children_changed],
        r.ctx)

\* lines 441-445: pre is the caller's context as it came in
LifecycleMerged(r, pre, n) ==
    Out([r.w EXCEPT !.state[n].request_anim = r.ctx.request_anim,
                    !.state[n].children_changed = @ \/ r.ctx.children_changed],
        [r.ctx EXCEPT !.request_anim = @ \/ pre.request_anim,
                      !.children_changed = @ \/ pre.children_changed,
                      !.needs_inval = @ \/ pre.needs_inval])

\* lines 448-453
LifecycleRegistered(r, pre, n) ==
    Out([r.w EXCEPT !.state[n].children = r.ctx.children,
                    !.state[n].children_changed = FALSE],
        RegisterChild([r.ctx EXCEPT !.children = BloomUnion(r.ctx.children, pre.children)],
                      r.w.state[n].id))

\* the return of WidgetPod::lifecycle to its caller; the entry's flag is the
\* pod's request_anim then, its st the caller's context then
LifecycleReturn(r, n, event) ==
    Out(Logged(r.w, PodEntry("lifecycle_return", n, event, r.w.state[n].request_anim,
                             r.ctx.widget_id, r.ctx)),
        r.ctx)

\* lines 441-453
LifecycleLeave(r, pre, n, event) ==
    IF event.kind = "Register"
    THEN LifecycleReturn(LifecycleRegistered(LifecycleMerged(r, pre, n), pre, n), n, event)
    ELSE LifecycleReturn(LifecycleMerged(r, pre, n), n, event)

\* lines 389-453
LifecycleEntered(w, pre, n, event, ps) ==
    LifecycleLeave(
        LifecycleRecurse(LifecycleMatch(w, LifecycleCleared(pre, w.state[n].id), n, event, ps),
                         n, event, ps),
        pre, n, event)

\* WidgetPod::lifecycle, lines 388-454.  r.ctx is the caller's LifeCycleCtx.
\* The entry's flag is the pod's request_anim when the call starts, its st the
\* caller's context then.
PodLifecycle(r, n, event, ps) ==
    LifecycleEntered(Logged(r.w, PodEntry("pod_lifecycle", n, event, r.w.state[n].request_anim,
                                          r.ctx.widget_id, r.ctx)),
                     r.ctx, n, event, ps)

(***************************************************************************)
(* WidgetPod::update                                                       *)
(***************************************************************************)
UpdateCtxInvalidate(ctx) == [ctx EXCEPT !.needs_inval = TRUE]
UpdateCtxChildrenChanged(ctx) == [ctx EXCEPT !.children_changed = TRUE]
UpdateCtxWidgetId(ctx) == ctx.widget_id

\* an update that never takes the early return of line 464
UpdateSameNever(od, oe, data, e) == FALSE

\* line 464: the guard of the first match arm
UpdateSame(od, oe, data, e) == od # None /\ oe # None /\ DataSame(od, data) /\ EnvSame(oe, e)

UpdateCallDo(w, ctx, c) ==
    CASE c.op = "invalidate" -> Out(w, UpdateCtxInvalidate(ctx))
      [] c.op = "children_changed" -> Out(w, UpdateCtxChildrenChanged(ctx))
      [] OTHER -> Out(w, ctx)

\* one context call made by the widget of pod n inside its update handler
UpdateCall(r, n, c) ==
    UpdateCallDo(Logged(r.w, Entry("up_call", n, c, FALSE, UpdateCtxWidgetId(r.ctx))), r.ctx, c)

RECURSIVE UpdateCalls(_, _, _)
UpdateCalls(r, n, cs) ==
    IF cs = <<>> THEN r ELSE UpdateCalls(UpdateCall(r, n, Head(cs)), n, Tail(cs))

RECURSIVE PodUpdate(_, _, _)
RECURSIVE WidgetUpdate(_, _, _, _)
RECURSIVE ForwardUpdate(_, _, _)

ForwardUpdate(r, kids, ps) ==
    IF kids = <<>> THEN r ELSE ForwardUpdate(PodUpdate(r, Head(kids), ps), Tail(kids), ps)

WidgetUpdateForward(r, n, ps, fwd) == IF fwd THEN ForwardUpdate(r, Children(n), ps) ELSE r

WidgetUpdateRun(r, n, ps, beh) ==
    UpdateCalls(WidgetUpdateForward(UpdateCalls(r, n, beh.pre), n, ps, beh.fwd), n, beh.post)

\* Widget::update of the widget wrapped by pod n
WidgetUpdate(r, n, old, ps) ==
    WidgetUpdateRun(
        Out(Logged(r.w, Entry("update", n, [old |-> old, new |-> ps.data], FALSE, r.ctx.widget_id)),
            r.ctx),
        n, ps, WidgetUpdateBeh(n))

\* lines 481-486: pre is the caller's context as it came in
UpdateLeave(r, pre, n, ps) ==
    Out([r.w EXCEPT !.old_data[n] = ps.data,
                    !.env[n] = ps.env,
                    !.state[n].children_changed = @ \/ r.ctx.children_changed],
        [r.ctx EXCEPT !.children_changed = @ \/ pre.children_changed,
                      !.needs_inval = @ \/ pre.needs_inval])

\* an update that forgets the data it was given when the snapshot is missing
UpdateMissingDropped(w, pre, n, ps) == Out(w, pre)

\* lines 465-470: no snapshot yet; the data and env are stored and the
\* widget is not called
UpdateMissing(w, pre, n, ps) == Out([w EXCEPT !.old_data[n] = ps.data, !.env[n] = ps.env], pre)

\* lines 463-486
UpdateEntered(w, pre, n, ps) ==
    IF UpdateSame(w.old_data[n], w.env[n], ps.data, ps.env) THEN Out(w, pre)
    ELSE IF w.old_data[n] = None
    THEN UpdateMissing(w, pre, n, ps)
    ELSE UpdateLeave(
            WidgetUpdate(Out(w, [pre EXCEPT !.children_changed = FALSE, !.needs_inval = FALSE]),
                         n, w.old_data[n], ps),
            pre, n, ps)

\* the return of WidgetPod::update to its caller; st is the caller's context
\* then
UpdateReturn(r, n, ps) ==
    Out(Logged(r.w, PodEntry("update_return", n, [old |-> r.w.old_data[n], new |-> ps.data],
                             FALSE, r.ctx.widget_id, r.ctx)),
        r.ctx)

\* WidgetPod::update, lines 462-487; the new data and env are ps.data, ps.env;
\* st is the caller's context when the call starts
PodUpdate(r, n, ps) ==
    UpdateReturn(
        UpdateEntered(
            Logged(r.w, PodEntry("pod_update", n, [old |-> r.w.old_data[n], new |-> ps.data],
                                 FALSE, r.ctx.widget_id, r.ctx)),
            r.ctx, n, ps),
        n, ps)

(***************************************************************************)
(* Region, PaintCtx and the paint pass                                     *)
(***************************************************************************)
\* a region test that finds every rectangle visible
RegionIntersectsAll(region, other) == TRUE

\* Region::intersects
RegionIntersects(region, other) == RectArea(RectIntersect(region, other)) > 0

\* Region::to_rect
RegionToRect(region) == region

PaintCtx(region, base, focus, window_id) ==
    [region |-> region, base |-> base, focus_widget |-> focus, window_id |-> window_id]

\* RenderContext::save: pushes the current transform; fails at the pods the
\* script names
SurfaceSave(s) == [s EXCEPT !.stack = Append(@, s.transform)]
\* RenderContext::transform(Affine::translate(v))
SurfaceTranslate(s, v) == [s EXCEPT !.transform = Pt(@.x + v.x, @.y + v.y)]
\* RenderContext::restore: pops the saved transform
SurfaceRestore(s) ==
    [s EXCEPT !.transform = s.stack[Len(s.stack)],
              !.stack = SubSeq(@, 1, Len(@) - 1)]

RECURSIVE PaintWithOffsetImpl(_, _, _, _, _)
RECURSIVE PodPaint(_, _, _, _)
RECURSIVE WidgetPaint(_, _, _, _)
RECURSIVE ForwardPaint(_, _, _, _, _)

ForwardPaint(w, ctx, kids, always, ps) ==
    IF kids = <<>> THEN w
    ELSE ForwardPaint(PaintWithOffsetImpl(w, ctx, Head(kids), always, ps), ctx, Tail(kids), always, ps)

WidgetPaintRun(w, ctx, n, ps, beh) ==
    IF beh.fwd THEN ForwardPaint(w, ctx, Children(n), beh.always, ps) ELSE w

\* Widget::paint of the widget wrapped by pod n: a container paints its child
\* pods with paint_with_offset or with paint_with_offset_always
WidgetPaint(w, ctx, n, ps) ==
    WidgetPaintRun(Logged(w, Entry("paint", n, ctx.region, Len(w.surface.stack) > 0, ctx.base)),
                   ctx, n, ps, WidgetPaintBeh(n))

\* WidgetPod::paint, lines 186-195
PodPaint(w, paint_ctx, n, ps) ==
    WidgetPaint(w, PaintCtx(paint_ctx.region, n, paint_ctx.focus_widget, paint_ctx.window_id), n, ps)

\* PaintCtx::with_child_ctx(region, |ctx| self.paint(ctx, ..)), lines 635-645
WithChildCtx(w, paint_ctx, region, n, ps) ==
    PodPaint(w, [paint_ctx EXCEPT !.region = region], n, ps)

\* a call of the render context made by pod n: op is save, transform or
\* restore, failed whether it returned an error
SurfaceCall(w, n, op, failed) == Logged(w, Entry(op, n, w.surface.transform, failed, Len(w.surface.stack)))

\* lines 236-238: a failing restore is logged and nothing else; whether the
\* render context popped its state before it reported the error is the
\* platform's (ps.restore_pops)
PaintRestore(w, n, ps) ==
    IF n \in ps.restore_fail
    THEN SurfaceCall(IF ps.restore_pops THEN [w EXCEPT !.surface = SurfaceRestore(@)] ELSE w,
                     n, "restore", TRUE)
    ELSE SurfaceCall([w EXCEPT !.surface = SurfaceRestore(@)], n, "restore", FALSE)

\* lines 229-238, after a save that succeeded
PaintSaved(w, paint_ctx, n, layout_origin, ps) ==
    PaintRestore(
        WithChildCtx(SurfaceCall([w EXCEPT !.surface = SurfaceTranslate(@, layout_origin)],
                                 n, "transform", FALSE),
                     paint_ctx, RectSub(RegionToRect(paint_ctx.region), layout_origin), n, ps),
        n, ps)

\* lines 220-238; the save of the render context fails at the pods in
\* ps.save_fail
PaintEntered(w, paint_ctx, n, paint_if_not_visible, ps) ==
    IF ~paint_if_not_visible /\ ~RegionIntersects(paint_ctx.region, w.state[n].layout_rect) THEN w
    ELSE IF n \in ps.save_fail THEN SurfaceCall(w, n, "save", TRUE)
    ELSE PaintSaved(SurfaceCall([w EXCEPT !.surface = SurfaceSave(@)], n, "save", FALSE),
                    paint_ctx, n, RectOrigin(w.state[n].layout_rect), ps)

\* the return of paint_with_offset_impl to its caller; st is the render
\* context's state then
PaintReturn(w, paint_ctx, n, paint_if_not_visible) ==
    Logged(w, PodEntry("paint_return", n, paint_ctx.region, paint_if_not_visible,
                       Len(w.surface.stack), w.surface))

\* WidgetPod::paint_with_offset_impl, lines 213-239; st is the render
\* context's state when the call starts
PaintWithOffsetImpl(w, paint_ctx, n, paint_if_not_visible, ps) ==
    PaintReturn(
        PaintEntered(
            Logged(w, PodEntry("pod_paint", n, paint_ctx.region, paint_if_not_visible,
                               Len(w.surface.stack), w.surface)),
            paint_ctx, n, paint_if_not_visible, ps),
        paint_ctx, n, paint_if_not_visible)

(***************************************************************************)
(* Scenes: the static trees the passes run over, with the layout rectangle *)
(* the parent gave each pod (set_layout_rect), origin parent-relative.     *)
(***************************************************************************)
Strip(x0, x1) == MkRect(x0, 0, x1, 2)
Scene(t, rects) == [tree |-> t, rects |-> rects]

\* a container with two sibling leaves
ScenePair == Scene(<<0, 1, 1>>, <<Strip(0, 6), Strip(0, 2), Strip(2, 4)>>)
\* a container with three sibling leaves
SceneFlat == Scene(<<0, 1, 1, 1>>, <<Strip(0, 6), Strip(0, 2), Strip(2, 4), Strip(4, 6)>>)
\* a container holding a container (placed at x = 2) that holds two leaves
SceneNested == Scene(<<0, 1, 2, 2>>, <<Strip(0, 6), Strip(2, 6), Strip(0, 2), Strip(2, 4)>>)
\* a leaf after a container that holds one leaf
SceneMixed == Scene(<<0, 1, 1, 2>>, <<Strip(0, 6), Strip(0, 2), Strip(2, 4), Strip(0, 2)>>)
\* the tree of tests::register_children: Split(Flex(t1, t2, t3), Scroll(TextBox))
SceneTest == Scene(<<0, 1, 2, 2, 2, 1, 6>>,
                   <<Strip(0, 8), Strip(0, 6), Strip(0, 2), Strip(2, 4), Strip(4, 6), Strip(6, 8), Strip(0, 2)>>)

SceneLeaves(sc) == {n \in 1 .. Len(sc.tree) : \A m \in 1 .. Len(sc.tree) : sc.tree[m] # n}

\* the assignments of widget kinds to a scene: leaves of the kinds in
\* leafKinds, containers of the kinds in containerKinds
Casts(sc, leafKinds, containerKinds) ==
    {c \in [1 .. Len(sc.tree) -> leafKinds \cup containerKinds] :
        \A n \in 1 .. Len(sc.tree) :
            c[n] \in (IF n \in SceneLeaves(sc) THEN leafKinds ELSE containerKinds)}

\* pointer positions in window coordinates, one in every strip up to MaxX;
\* x = 7 is outside every scene of at most four pods
MaxX == 7
Points == {Pt(x, 1) : x \in {i \in 1 .. MaxX : i % 2 = 1}}

\* WidgetPod::new for every pod of the scene, then the first layout
InitScene(sc, cast) ==
    /\ tree = sc.tree
    /\ widget = cast
    /\ state = [n \in 0 .. Len(sc.tree) |->
                  IF n = 0 THEN BaseStateNew(Root)
                  ELSE [BaseStateNew(n) EXCEPT !.layout_rect = sc.rects[n]]]
    /\ old_data = [n \in 1 .. Len(sc.tree) |-> None]
    /\ env = [n \in 1 .. Len(sc.tree) |-> None]
    /\ command_queue = <<>>
    /\ focus_widget = NoId
    /\ surface = [stack |-> <<>>, transform |-> Pt(0, 0)]
    /\ log = <<>>
    /\ ret = [pass |-> "new"]

\* the inputs of a pass that are not the event: data, env, the pods at which
\* the render surface's save and restore fail, and whether a restore that
\* fails has popped the saved state
Pass(data, e) ==
    [data |-> data, env |-> e, save_fail |-> {}, restore_fail |-> {}, restore_pops |-> FALSE]

(***************************************************************************)
(* The host: one pass at a time over the root pod, each with a context of  *)
(* its own.                                                                *)
(***************************************************************************)
Commit(w) ==
    /\ state' = w.state
    /\ old_data' = w.old_data
    /\ env' = w.env
    /\ command_queue' = w.command_queue
    /\ surface' = w.surface
    /\ log' = w.log

\* the root EventCtx of a pass
RootEventCtx == EventCtx(0, state[Root].has_active, TRUE, focus_widget, TheWindow)

\* the root LifeCycleCtx of a pass
RootLifeCycleCtx(children, children_changed) ==
    [children |-> children,
     focus_widgets |-> <<>>,
     children_changed |-> children_changed,
     needs_inval |-> FALSE,
     request_anim |-> FALSE,
     window_id |-> TheWindow,
     widget_id |-> NoId]

\* the world an event pass starts from: the root context borrows a fresh
\* BaseState
EventWorld == [World EXCEPT !.state[0] = BaseStateNew(state[Root].id)]

\* the host takes what an event pass left: r is the world and the root context
EventDone(r, pass, event) ==
    /\ Commit(r.w)
    /\ ret' = [pass |-> pass, event |-> event, ctx |-> r.ctx]

\* root.event(ctx, event, data, env)
EventPass(event, ps) ==
    EventDone(PodEvent(Out(EventWorld, RootEventCtx), Root, event, ps), "event", event)

LifecycleDone(r, event, ctx0) ==
    /\ Commit(r.w)
    /\ ret' = [pass |-> "lifecycle", event |-> event, ctx |-> r.ctx, ctx0 |-> ctx0]

\* root.lifecycle(ctx, event, data, env)
LifecyclePass(event, ctx0, ps) ==
    LifecycleDone(PodLifecycle(Out(World, ctx0), Root, event, ps), event, ctx0)

(***************************************************************************)
(* SpecPointer: pointer events over buttons and widgets that mark events   *)
(* handled                                                                 *)
(***************************************************************************)
PointerEvents ==
    {EvMouseDown(p) : p \in Points} \cup {EvMouseUp(p) : p \in Points}
        \cup {EvMouseMoved(p) : p \in Points} \cup {EvWheel}

InitPointer ==
    \E sc \in {ScenePair, SceneNested, SceneMixed} :
        \E cast \in Casts(sc, {"Passive", "Button", "Opaque"}, {"Passive"}) : InitScene(sc, cast)

PointerPass ==
    /\ \E event \in PointerEvents : EventPass(event, Pass(0, 0))
    /\ UNCHANGED <<tree, widget, focus_widget>>

NextPointer == PointerPass

SpecPointer == InitPointer /\ [][NextPointer]_vars

\* SpecHover: sequences of PointerMove events only
HoverPass ==
    /\ \E p \in Points : EventPass(EvMouseMoved(p), Pass(0, 0))
    /\ UNCHANGED <<tree, widget, focus_widget>>

NextHover == HoverPass

SpecHover == InitPointer /\ [][NextHover]_vars

(***************************************************************************)
(* Reading the log                                                         *)
(***************************************************************************)
\* the widget of pod n got an event of this kind through Widget::event
Delivered(lg, n, kind) ==
    \E i \in 1 .. Len(lg) : lg[i].t = "event" /\ lg[i].node = n /\ lg[i].ev.kind = kind

\* the widget of pod n got any event through Widget::event
GotEvent(lg, n) == \E i \in 1 .. Len(lg) : lg[i].t = "event" /\ lg[i].node = n

\* how many lifecycle notifications of this kind the widget of pod n got
Notifications(lg, n, kind) ==
    Cardinality({i \in 1 .. Len(lg) : lg[i].t = "lifecycle" /\ lg[i].node = n /\ lg[i].ev.kind = kind})

\* the widget of pod n called this context method
Called(lg, n, op) ==
    \E i \in 1 .. Len(lg) : lg[i].t = "call" /\ lg[i].node = n /\ lg[i].ev.op = op

\* the origin of pod n's parent in window coordinates
RECURSIVE ParentOrigin(_)
ParentOrigin(n) ==
    IF tree[n] = 0 THEN Pt(0, 0)
    ELSE LET o == ParentOrigin(tree[n])
             r == state[tree[n]].layout_rect
         IN Pt(o.x + r.x0, o.y + r.y0)

\* the pointer at window position p lies inside pod n's layout rectangle
PointerInside(n, p) ==
    LET o == ParentOrigin(n) IN Winding(state[n].layout_rect, Pt(p.x - o.x, p.y - o.y))

(***************************************************************************)
(* Claims on the event pass: active capture, hot tracking, has_active,     *)
(* handled short-circuit                                                   *)
(***************************************************************************)
\* C3 (as claimed): once a leaf is active, every later PointerMove and
\* PointerUp passed to the root is delivered to the leaf's widget, whatever
\* the other widgets do with the events
C3_ActiveCapture ==
    [][\A n \in Nodes :
         (IsLeaf(n) /\ state[n].is_active /\ ret'.pass = "event"
             /\ ret'.event.kind \in {"MouseMoved", "MouseUp"})
         => Delivered(log', n, ret'.event.kind)]_vars

\* C4 (as claimed): over PointerMove events only, after each event a leaf is
\* hot exactly when the pointer is inside its rectangle, and its widget got
\* one HotChanged notification if is_hot changed and none otherwise
C4_HotTracksPointer ==
    [][ret'.pass = "event" =>
         \A n \in Nodes : IsLeaf(n) =>
            /\ state'[n].is_hot = PointerInside(n, ret'.event.pos)
            /\ Notifications(log', n, "HotChanged")
                 = (IF state'[n].is_hot # state[n].is_hot THEN 1 ELSE 0)]_vars

\* C6 (as claimed): after every event pass, has_active of every pod equals
\* its is_active or the has_active of one of its child pods
C6_HasActiveInvariant ==
    \A n \in Nodes :
        state[n].has_active
            = (state[n].is_active \/ \E c \in Nodes : tree[c] = n /\ state[c].has_active)

\* C10: the widget's handler starts with handled false; a set_handled call
\* shows in the caller's context when the pod's event call returns and the
\* caller's flag never falls back; a pod called with a handled context does
\* not run its widget's event handler and keeps is_hot, is_active, has_active
\* and the request flags
SameFlags(a, b) ==
    /\ a.is_hot = b.is_hot
    /\ a.is_active = b.is_active
    /\ a.has_active = b.has_active
    /\ a.request_anim = b.request_anim
    /\ a.request_timer = b.request_timer
    /\ a.request_focus = b.request_focus

C10_HandledShortCircuit ==
    \A i \in 1 .. Len(log) :
        /\ log[i].t = "event" => ~log[i].flag
        /\ (log[i].t = "call" /\ log[i].ev.op = "set_handled") =>
              \E j \in i + 1 .. Len(log) :
                  log[j].t = "pod_return" /\ log[j].node = log[i].node /\ log[j].flag
        /\ (log[i].t \in {"pod_event", "pod_return"} /\ log[i].flag) =>
              \A j \in i + 1 .. Len(log) :
                  (log[j].t \in {"pod_event", "pod_return"} /\ log[j].id = log[i].id)
                      => log[j].flag
        /\ (log[i].t = "pod_event" /\ log[i].flag) =>
              /\ ~GotEvent(log, log[i].node)
              /\ \E j \in i + 1 .. Len(log) :
                    /\ log[j].t = "pod_return" /\ log[j].node = log[i].node
                    /\ SameFlags(log[j].st, log[i].st)

\* C10 witness: a widget marked the event handled and a later sibling pod,
\* not yet initialised, was called with the handled context
C10_Witness ==
    \E i, j \in 1 .. Len(log) :
        /\ i < j
        /\ log[i].t = "call" /\ log[i].ev.op = "set_handled"
        /\ log[j].t = "pod_event" /\ log[j].flag
        /\ \E k \in j + 1 .. Len(log) : log[k].t = "lifecycle" /\ log[k].node = log[j].node


(***************************************************************************)
(* SpecRegister: Register passes over static trees, between pointer moves  *)
(* that may initialise pods before they are registered                     *)
(***************************************************************************)
InitRegister ==
    \E sc \in {ScenePair, SceneFlat, SceneNested, SceneMixed, SceneTest} :
        \E cast \in Casts(sc, {"Passive", "TextBox"}, {"Passive", "Mute"}) : InitScene(sc, cast)

\* the host's Register pass; the context may already hold an id that is not
\* in the tree, as the second child's context holds the first child's ids
RegisterPass ==
    /\ \E pre \in {BloomNew, BloomAdd(BloomNew, Len(tree) + 1)} :
          \E cc \in BOOLEAN :
              LifecyclePass(LcRegister, RootLifeCycleCtx(pre, cc), Pass(0, 0))
    /\ UNCHANGED <<tree, widget, focus_widget>>

RegisterHoverPass ==
    /\ \E p \in Points : EventPass(EvMouseMoved(p), Pass(0, 0))
    /\ UNCHANGED <<tree, widget, focus_widget>>

NextRegister == RegisterPass \/ RegisterHoverPass

SpecRegister == InitRegister /\ [][NextRegister]_vars

\* every container's widget forwards what it gets to all of its child pods
AllForward == \A n \in Nodes : ~IsLeaf(n) => widget[n] # "Mute"

\* the last pass was a Register pass over the root
Registered == ret.pass = "lifecycle" /\ ret.event.kind = "Register"

\* C1: after a Register pass over a tree whose containers all forward, each
\* pod's child set holds the id of each of its proper descendants, and the
\* context handed back holds the root's id and every descendant's id and
\* counts one entry per pod on top of what it held (7 for the tested tree)
C1_RegisterComplete ==
    (Registered /\ AllForward) =>
        /\ \A n \in Nodes : \A d \in Descendants(n) :
              BloomContains(state[n].children, state[d].id)
        /\ \A n \in Nodes : BloomContains(ret.ctx.children, state[n].id)
        /\ BloomEntryCount(ret.ctx.children) >= Cardinality(Nodes)
        /\ BloomEntryCount(ret.ctx.children)
              = BloomEntryCount(ret.ctx0.children) + Cardinality(Nodes)
        /\ (tree = SceneTest.tree /\ ret.ctx0.children = BloomNew)
              => BloomEntryCount(ret.ctx.children) = 7

\* C1 witness: the tree of tests::register_children registered from an empty
\* context, the root knowing the leaf under its second container
C1_Witness ==
    /\ Registered /\ AllForward
    /\ tree = SceneTest.tree
    /\ ret.ctx0.children = BloomNew
    /\ BloomEntryCount(ret.ctx.children) = 7
    /\ BloomContains(state[Root].children, state[7].id)


(***************************************************************************)
(* SpecFocus: registration, the host moving the focus and routing the      *)
(* change, and key events                                                  *)
(***************************************************************************)
InitFocus ==
    \E sc \in {SceneFlat, SceneNested} :
        \E cast \in Casts(sc, {"Passive", "TextBox"}, {"Passive", "Opaque"}) : InitScene(sc, cast)

FocusRegisterPass ==
    /\ LifecyclePass(LcRegister, RootLifeCycleCtx(BloomNew, TRUE), Pass(0, 0))
    /\ UNCHANGED <<tree, widget, focus_widget>>

\* the host resolves a focus change: it passes RouteFocusChanged with the old
\* and the new focus to the root and records the new focus
FocusPass ==
    \E new \in Nodes \cup {NoId} :
        /\ new # focus_widget
        /\ LifecycleDone(PodLifecycle(Out(World, RootLifeCycleCtx(BloomNew, FALSE)), Root,
                                      LcRouteFocusChanged(focus_widget, new), Pass(0, 0)),
                         LcRouteFocusChanged(focus_widget, new),
                         RootLifeCycleCtx(BloomNew, FALSE))
        /\ focus_widget' = new
        /\ UNCHANGED <<tree, widget>>

KeyEvents == {EvKeyDown, EvKeyUp, EvPaste}

KeyPass ==
    /\ \E event \in KeyEvents : EventPass(event, Pass(0, 0))
    /\ UNCHANGED <<tree, widget, focus_widget>>

NextFocus == FocusRegisterPass \/ FocusPass \/ KeyPass

SpecFocus == InitFocus /\ [][NextFocus]_vars

\* every pod's child set holds the ids of its proper descendants
RegistrationCurrent ==
    \A n \in Nodes : \A d \in Descendants(n) : BloomContains(state[n].children, state[d].id)

\* the widget of pod n got FocusChanged(b)
GotFocusChanged(lg, n, b) ==
    \E i \in 1 .. Len(lg) :
        lg[i].t = "lifecycle" /\ lg[i].node = n /\ lg[i].ev.kind = "FocusChanged" /\ lg[i].ev.b = b

\* the widget of pod n got a focus notification of any kind
GotFocusNote(lg, n) ==
    \E i \in 1 .. Len(lg) :
        lg[i].t = "lifecycle" /\ lg[i].node = n
            /\ lg[i].ev.kind \in {"FocusChanged", "RouteFocusChanged"}

\* C2 (as claimed): with registered sibling leaves and leaf A focused, the
\* pass of RouteFocusChanged{old = A, new = B} gives A's widget
\* FocusChanged(false), B's widget FocusChanged(true) and no other sibling's
\* widget any focus notification
C2_FocusRoute ==
    \A a, b \in Nodes :
        (/\ ret.pass = "lifecycle" /\ ret.event.kind = "RouteFocusChanged"
         /\ tree = SceneFlat.tree /\ RegistrationCurrent
         /\ a # b /\ IsLeaf(a) /\ IsLeaf(b)
         /\ ret.event.old = a /\ ret.event.new = b)
        => /\ GotFocusChanged(log, a, FALSE)
           /\ GotFocusChanged(log, b, TRUE)
           /\ \A c \in Nodes \ {a, b} : IsLeaf(c) => ~GotFocusNote(log, c)

KeyKinds == {"KeyDown", "KeyUp", "Paste"}

\* the last pass passed a key event to the root
KeyPassed == ret.pass = "event" /\ ret.event.kind \in KeyKinds

\* C9 (as claimed): a key event is delivered to a pod's widget if and only if
\* the focus widget is that pod or a member of its registered child set
C9_KeyIffFocus ==
    KeyPassed =>
        \A n \in Nodes :
            GotEvent(log, n)
                <=> (focus_widget = state[n].id
                        \/ (focus_widget # NoId /\ BloomContains(state[n].children, focus_widget)))

\* every container's widget forwards the event without marking it handled
PlainContainers == \A n \in Nodes : ~IsLeaf(n) => widget[n] = "Passive"

\* C9 (amended): a pod whose event method is called with a key event and a
\* context not yet handled delivers it to its widget if and only if the focus
\* widget is that pod or a member of its registered child set, and a widget
\* gets a key event in no other way; hence with current registration and
\* containers that forward without handling, the focused leaf's widget gets
\* the key event and no other leaf's widget does
C9_KeyGate ==
    KeyPassed =>
        /\ \A i \in 1 .. Len(log) :
              (log[i].t = "pod_event" /\ ~log[i].flag) =>
                  (GotEvent(log, log[i].node)
                      <=> (focus_widget = log[i].st.id
                              \/ (focus_widget # NoId
                                    /\ BloomContains(log[i].st.children, focus_widget))))
        /\ \A n \in Nodes :
              GotEvent(log, n) =>
                  \E i \in 1 .. Len(log) :
                      log[i].t = "pod_event" /\ log[i].node = n /\ ~log[i].flag
        /\ \A b \in Nodes :
              (IsLeaf(b) /\ focus_widget = state[b].id /\ RegistrationCurrent /\ PlainContainers)
                  => /\ GotEvent(log, b)
                     /\ \A a \in Nodes \ {b} : IsLeaf(a) => ~GotEvent(log, a)

\* C9 witness: the registered three-leaf container after the focus went to
\* the second leaf: the KeyDown reached its text box, which asked for the
\* next focus, and did not reach the first leaf
C9_Witness ==
    /\ KeyPassed /\ ret.event.kind = "KeyDown"
    /\ tree = SceneFlat.tree /\ RegistrationCurrent /\ PlainContainers
    /\ focus_widget = 3
    /\ GotEvent(log, 3) /\ ~GotEvent(log, 2)
    /\ Called(log, 3, "focus_next")
    /\ state[3].request_focus = FocusNext


(***************************************************************************)
(* SpecUpdate: update passes with data and environments of which some are  *)
(* the same without being identical                                        *)
(***************************************************************************)
MaxData == 2
MaxEnv == 1

InitUpdate ==
    \E sc \in {ScenePair, SceneNested} :
        \E cast \in Casts(sc, {"Button"}, {"Passive", "Submitter", "Mute"}) :
            InitScene(sc, cast)

\* the root UpdateCtx of a pass
RootUpdateCtx(children_changed, needs_inval) ==
    [children_changed |-> children_changed,
     needs_inval |-> needs_inval,
     window_id |-> TheWindow,
     widget_id |-> NoId]

\* what the pass before this one was called with
Prev ==
    [pass |-> ret.pass,
     data |-> IF ret.pass = "update" THEN ret.data ELSE None,
     env |-> IF ret.pass = "update" THEN ret.env ELSE None]

UpdateDone(r, data, e, ctx0) ==
    /\ Commit(r.w)
    /\ ret' = [pass |-> "update", data |-> data, env |-> e,
               ctx |-> r.ctx, ctx0 |-> ctx0, prev |-> Prev]

\* root.update(ctx, data, env)
UpdatePass ==
    \E data \in 0 .. MaxData : \E e \in 0 .. MaxEnv : \E cc, ni \in BOOLEAN :
        /\ UpdateDone(PodUpdate(Out(World, RootUpdateCtx(cc, ni)), Root, Pass(data, e)),
                      data, e, RootUpdateCtx(cc, ni))
        /\ UNCHANGED <<tree, widget, focus_widget>>

\* the Register pass that adds the widgets, with the first data
UpdateRegisterPass ==
    /\ LifecyclePass(LcRegister, RootLifeCycleCtx(BloomNew, TRUE), Pass(0, 0))
    /\ UNCHANGED <<tree, widget, focus_widget>>

NextUpdate == UpdatePass \/ UpdateRegisterPass

SpecUpdate == InitUpdate /\ [][NextUpdate]_vars

\* the widget of pod n had its update method called
GotUpdate(lg, n) == \E i \in 1 .. Len(lg) : lg[i].t = "update" /\ lg[i].node = n

\* C5: an update pass that follows an update pass with data and environment
\* the same as the first one's calls no widget's update and leaves every
\* pod's bookkeeping state, every snapshot and the context's flags as they
\* were
C5_UpdateIdempotent ==
    [][(/\ ret.pass = "update" /\ ret'.pass = "update"
        /\ DataSame(ret.data, ret'.data) /\ EnvSame(ret.env, ret'.env))
       => /\ \A n \in Nodes : ~GotUpdate(log', n)
          /\ state' = state
          /\ old_data' = old_data
          /\ env' = env
          /\ ret'.ctx = ret'.ctx0]_vars

\* C5 witness: the second of two update passes in a row, with data that is
\* the same as but not identical to the first's, whose first pass did call
\* the root widget's update and left a children_changed flag behind
C5_Witness ==
    /\ ret.pass = "update" /\ ret.prev.pass = "update"
    /\ DataSame(ret.prev.data, ret.data) /\ ret.prev.data # ret.data
    /\ EnvSame(ret.prev.env, ret.env)
    /\ old_data[Root] = ret.prev.data
    /\ state[Root].children_changed
    /\ ret.ctx0.needs_inval /\ ~ret.ctx0.children_changed
    /\ ~GotUpdate(log, Root)


(***************************************************************************)
(* SpecPaint: paint passes with visible regions that cover, touch or miss  *)
(* the pods' rectangles, and a render surface whose save may fail          *)
(***************************************************************************)
InitPaint ==
    \E sc \in {SceneFlat, SceneNested, SceneMixed} :
        \E cast \in Casts(sc, {"Passive"}, {"Passive", "Eager"}) : InitScene(sc, cast)

\* visible regions: the strips between even x up to MaxX, and an empty one
Regions ==
    LET Evens == {i \in 0 .. MaxX : i % 2 = 0}
    IN {r \in {Strip(a, b) : a \in Evens, b \in Evens} : r.x0 <= r.x1}

\* the world a paint pass starts from: a fresh render context
PaintWorld == [World EXCEPT !.surface = [stack |-> <<>>, transform |-> Pt(0, 0)]]

\* a pass whose save of the render context fails at the pods in sf
PaintScript(sf) == [Pass(0, 0) EXCEPT !.save_fail = sf]

PaintDone(w, region, always, ps) ==
    /\ Commit(w)
    /\ ret' = [pass |-> "paint", region |-> region, always |-> always, ps |-> ps]

\* the host paints the root into a fresh render context with
\* paint_with_offset or with paint_with_offset_always
PaintPass ==
    \E region \in Regions : \E always \in BOOLEAN :
        \E sf \in {{}} \cup {{n} : n \in Nodes} :
            /\ PaintDone(PaintWithOffsetImpl(PaintWorld,
                                             PaintCtx(region, 0, focus_widget, TheWindow),
                                             Root, always, PaintScript(sf)),
                         region, always, PaintScript(sf))
            /\ UNCHANGED <<tree, widget, focus_widget>>

NextPaint == PaintPass

SpecPaint == InitPaint /\ [][NextPaint]_vars

\* how often the widget of pod n was painted
PaintCount(lg, n) == Cardinality({i \in 1 .. Len(lg) : lg[i].t = "paint" /\ lg[i].node = n})

\* two rectangles share a point (both half-open, integer corners)
Overlaps(a, b) ==
    \E x \in -(MaxX + 1) .. (MaxX + 1) : \E y \in 0 .. 2 :
        Winding(a, Pt(x, y)) /\ Winding(b, Pt(x, y))

\* C7: a pod called through paint_with_offset does not paint its widget when
\* its layout rectangle does not intersect the context's region and paints it
\* exactly once when it does; called through paint_with_offset_always it
\* paints it exactly once whatever the region; both provided the save of the
\* render context succeeds
C7_PaintVisible ==
    ret.pass = "paint" =>
        \A i \in 1 .. Len(log) :
            log[i].t = "pod_paint" =>
                LET n == log[i].node
                    hit == Overlaps(log[i].ev, state[n].layout_rect)
                    saved == n \notin ret.ps.save_fail
                IN /\ (~log[i].flag /\ ~hit) => PaintCount(log, n) = 0
                   /\ (~log[i].flag /\ hit /\ saved) => PaintCount(log, n) = 1
                   /\ (log[i].flag /\ saved) => PaintCount(log, n) = 1

\* C7 witness: in one pass a pod outside the region was painted through
\* paint_with_offset_always, a pod whose rectangle only touches the region
\* was skipped by paint_with_offset, and a pod inside it was painted once
C7_Witness ==
    /\ ret.pass = "paint"
    /\ \E i, j, k \in 1 .. Len(log) :
          /\ log[i].t = "pod_paint" /\ log[i].flag
          /\ ~Overlaps(log[i].ev, state[log[i].node].layout_rect)
          /\ PaintCount(log, log[i].node) = 1
          /\ log[j].t = "pod_paint" /\ ~log[j].flag
          /\ ~Overlaps(log[j].ev, state[log[j].node].layout_rect)
          /\ log[j].ev.x1 = state[log[j].node].layout_rect.x0
          /\ PaintCount(log, log[j].node) = 0
          /\ log[k].t = "pod_paint" /\ ~log[k].flag
          /\ Overlaps(log[k].ev, state[log[k].node].layout_rect)
          /\ PaintCount(log, log[k].node) = 1


(***************************************************************************)
(* SpecCommands: widgets at every depth submitting commands from their     *)
(* event and lifecycle handlers, and the host taking commands off the      *)
(* queue between passes                                                    *)
(***************************************************************************)
\* the host starts no new pass while more than MaxQueue commands wait
MaxQueue == 2

InitCommands ==
    \E sc \in {ScenePair, SceneNested} :
        \E cast \in Casts(sc, {"Passive", "Submitter"}, {"Passive", "Submitter"}) :
            InitScene(sc, cast)

CommandEventPass ==
    /\ Len(command_queue) <= MaxQueue
    /\ \E event \in {EvMouseMoved(p) : p \in Points} \cup {EvCommand(0)} :
          EventPass(event, Pass(0, 0))
    /\ UNCHANGED <<tree, widget, focus_widget>>

CommandRegisterPass ==
    /\ Len(command_queue) <= MaxQueue
    /\ LifecyclePass(LcRegister, RootLifeCycleCtx(BloomNew, TRUE), Pass(0, 0))
    /\ UNCHANGED <<tree, widget, focus_widget>>

\* the first command of the queue as the event the host passes
HeadCommand == EvTargetedCommand(Head(command_queue)[1], Head(command_queue)[2])

\* after a pass the host takes the first command off the queue and passes it
\* to the root with its target
DispatchPass ==
    /\ command_queue # <<>>
    /\ Len(command_queue) <= MaxQueue
    /\ EventDone(PodEvent(Out([EventWorld EXCEPT !.command_queue = Tail(@)], RootEventCtx),
                          Root, HeadCommand, Pass(0, 0)),
                 "dispatch", HeadCommand)
    /\ UNCHANGED <<tree, widget, focus_widget>>

\* with more than MaxQueue commands waiting the host drops the first one
DiscardCommand ==
    /\ Len(command_queue) > MaxQueue
    /\ command_queue' = Tail(command_queue)
    /\ log' = <<>>
    /\ ret' = [pass |-> "discard"]
    /\ UNCHANGED <<tree, widget, state, old_data, env, focus_widget, surface>>

NextCommands == CommandEventPass \/ CommandRegisterPass \/ DispatchPass \/ DiscardCommand

SpecCommands == InitCommands /\ [][NextCommands]_vars

\* the submit_command calls of a pass, in call order
Submits(lg) ==
    SelectSeq(lg, LAMBDA e : e.t \in {"call", "lc_call"} /\ e.ev.op = "submit_command")

\* the queue entries the calls ask for: the given target, or the window of
\* the pass when none is given
Asked(lg) ==
    LET s == Submits(lg)
    IN [i \in 1 .. Len(s) |->
          <<IF s[i].ev.target.t = "None" THEN TargetWindow(TheWindow) ELSE s[i].ev.target,
            s[i].ev.cmd>>]

\* C8: a pass leaves the queue as what it held when the pass began, followed
\* by one entry per submit_command call of the pass, in call order, each with
\* its target or the window
C8_CommandOrder ==
    [][/\ ret'.pass \in {"event", "lifecycle"} => command_queue' = command_queue \o Asked(log')
       /\ ret'.pass = "dispatch" => command_queue' = Tail(command_queue) \o Asked(log')]_vars

\* C8 witness: a pass that began with commands waiting and in which a
\* container and a pod below it submitted, through EventCtx and through
\* LifeCycleCtx, with and without a target
C8_Witness ==
    /\ ret.pass = "event"
    /\ Len(Submits(log)) >= 4
    /\ Len(command_queue) > Len(Submits(log))
    /\ \E i, j, k \in 1 .. Len(log) :
          /\ i < j /\ j < k
          /\ log[i].t = "call" /\ log[i].ev.op = "submit_command" /\ log[i].ev.target.t = "None"
          /\ log[j].t = "lc_call" /\ log[j].ev.op = "submit_command"
          /\ log[j].node \in Descendants(log[i].node)
          /\ log[k].t = "call" /\ log[k].ev.op = "submit_command"
          /\ log[k].node = log[i].node /\ log[k].ev.target.t = "Widget"


(***************************************************************************)
(* SpecTarget: commands targeted at a widget id, known to the tree or not, *)
(* passed to the root of a registered or unregistered tree                 *)
(***************************************************************************)
\* the largest target id the host passes; the trees hold at most 7 pods
MaxTarget == 9

InitTarget ==
    \E sc \in {SceneNested, SceneMixed, SceneTest} :
        \E cast \in Casts(sc, {"Passive", "Opaque"}, {"Passive", "Mute"}) : InitScene(sc, cast)

TargetRegisterPass ==
    /\ LifecyclePass(LcRegister, RootLifeCycleCtx(BloomNew, TRUE), Pass(0, 0))
    /\ UNCHANGED <<tree, widget, focus_widget>>

TargetPass ==
    /\ \E id \in 1 .. MaxTarget :
          EventPass(EvTargetedCommand(TargetWidget(id), 0), Pass(0, 0))
    /\ UNCHANGED <<tree, widget, focus_widget>>

NextTarget == TargetRegisterPass \/ TargetPass

SpecTarget == InitTarget /\ [][NextTarget]_vars

\* the last pass passed a command targeted at widget id x to the root
TargetedAt(x) ==
    /\ ret.pass = "event"
    /\ ret.event.kind = "TargetedCommand"
    /\ ret.event.target = TargetWidget(x)

\* the pods whose id is x
Holders(x) == {n \in Nodes : state[n].id = x}

\* every pod's child set answers for x exactly as the tree is
ExactFor(x) ==
    \A n \in Nodes :
        BloomContains(state[n].children, x) <=> (\E d \in Descendants(n) : state[d].id = x)

CallerHadActive(lg, i) ==
    IF lg[i].id = 0 THEN lg[i].st.has_active
    ELSE LET j == CHOOSE j \in 1 .. Len(lg) : lg[j].t = "pod_event" /\ lg[j].node = lg[i].id
         IN lg[j].st.has_active

\* C12, the rule: a pod called with a context not marked handled hands
\* PointerDown or PointerUp to its widget exactly when it had has_active set
\* when the call started, or the caller's context had no active descendant
\* and the pointer is inside the pod's rectangle
C12_PointerGate ==
    \A i \in 1 .. Len(log) :
        (log[i].t = "pod_event" /\ ~log[i].flag /\ log[i].ev.kind \in {"MouseDown", "MouseUp"}) =>
            (Delivered(log, log[i].node, log[i].ev.kind)
                <=> \/ log[i].st.has_active
                    \/ /\ ~CallerHadActive(log, i)
                       /\ Winding(log[i].st.layout_rect, log[i].ev.pos))

\* C12, the consequence (as claimed): while some pod is active, a PointerDown
\* or PointerUp inside the rectangle of a pod that is neither active nor an
\* ancestor of an active pod is not delivered to that pod's widget
C12_ActiveExcludes ==
    [][\A n \in Nodes :
         (/\ ret'.pass = "event"
          /\ ret'.event.kind \in {"MouseDown", "MouseUp"}
          /\ \E m \in Nodes : state[m].is_active
          /\ ~state[n].is_active
          /\ \A m \in Nodes : state[m].is_active => n \notin Ancestors(m)
          /\ PointerInside(n, ret'.event.pos))
         => ~Delivered(log', n, ret'.event.kind)]_vars


(***************************************************************************)
(* SpecFrame: timers and animation frames requested from event handlers,   *)
(* with every other pass in between                                        *)
(***************************************************************************)
InitFrame ==
    \E sc \in {ScenePair, SceneNested} :
        \E cast \in Casts(sc, {"Passive", "Ticker", "Animator", "Spinner"}, {"Passive"}) :
            InitScene(sc, cast)

FrameRegisterPass ==
    /\ LifecyclePass(LcRegister, RootLifeCycleCtx(BloomNew, TRUE), Pass(0, 0))
    /\ UNCHANGED <<tree, widget, focus_widget>>

\* a press of the pointer
FramePointerPass ==
    /\ \E p \in Points : EventPass(EvMouseDown(p), Pass(0, 0))
    /\ UNCHANGED <<tree, widget, focus_widget>>

\* the platform's timer fires
TimerPass ==
    /\ EventPass(EvTimer, Pass(0, 0))
    /\ UNCHANGED <<tree, widget, focus_widget>>

\* the platform's animation tick
AnimFramePass ==
    /\ LifecyclePass(LcAnimFrame, RootLifeCycleCtx(BloomNew, FALSE), Pass(0, 0))
    /\ UNCHANGED <<tree, widget, focus_widget>>

FrameUpdatePass ==
    /\ UpdateDone(PodUpdate(Out(World, RootUpdateCtx(FALSE, FALSE)), Root, Pass(0, 0)),
                  0, 0, RootUpdateCtx(FALSE, FALSE))
    /\ UNCHANGED <<tree, widget, focus_widget>>

FramePaintPass ==
    /\ PaintDone(PaintWithOffsetImpl(PaintWorld,
                                     PaintCtx(Strip(0, 6), 0, focus_widget, TheWindow),
                                     Root, FALSE, Pass(0, 0)),
                 Strip(0, 6), FALSE, Pass(0, 0))
    /\ UNCHANGED <<tree, widget, focus_widget>>

\* WidgetPod::layout, lines 247-255: the widget's layout and nothing else
LayoutPass ==
    /\ Commit(World)
    /\ ret' = [pass |-> "layout"]
    /\ UNCHANGED <<tree, widget, focus_widget>>

NextFrame ==
    \/ FrameRegisterPass \/ FramePointerPass \/ TimerPass \/ AnimFramePass
    \/ FrameUpdatePass \/ FramePaintPass \/ LayoutPass

SpecFrame == InitFrame /\ [][NextFrame]_vars

\* C13 (as claimed): when a Timer event is passed, a pod's widget gets it if
\* and only if the pod's request_timer flag is set
C13_TimerIffRequested ==
    (ret.pass = "event" /\ ret.event.kind = "Timer") =>
        \A i \in 1 .. Len(log) :
            log[i].t = "pod_event" =>
                (Delivered(log, log[i].node, "Timer") <=> log[i].st.request_timer)

\* a pod called with a Timer event and a context not marked handled hands the
\* event to its widget if and only if its request_timer flag is set, and a
\* widget gets a Timer in no other way
TimerGate ==
    (ret.pass = "event" /\ ret.event.kind = "Timer") =>
        /\ \A i \in 1 .. Len(log) :
              (log[i].t = "pod_event" /\ ~log[i].flag) =>
                  (Delivered(log, log[i].node, "Timer") <=> log[i].st.request_timer)
        /\ \A n \in Nodes :
              Delivered(log, n, "Timer") =>
                  \E i \in 1 .. Len(log) :
                      log[i].t = "pod_event" /\ log[i].node = n /\ ~log[i].flag

\* C13 (amended): a pod called with a Timer event and a context not marked
\* handled hands the event to its widget if and only if its request_timer
\* flag is set; and a request_timer flag that is set stays set through every
\* later event, lifecycle, update, layout and paint pass
C13_TimerGate ==
    /\ []TimerGate
    /\ [][\A n \in Nodes : state[n].request_timer => state'[n].request_timer]_vars

\* C13 witness: two tickers that both asked for a timer; the Timer reached
\* the first, which marked it handled, and the second pod, called with the
\* handled context, kept its flag and did not get the Timer
C13_Witness ==
    /\ ret.pass = "event" /\ ret.event.kind = "Timer"
    /\ \E a, b \in Nodes :
          /\ a # b /\ widget[a] = "Ticker" /\ widget[b] = "Ticker"
          /\ state[a].request_timer /\ state[b].request_timer
          /\ Delivered(log, a, "Timer") /\ ~Delivered(log, b, "Timer")
          /\ \E i \in 1 .. Len(log) :
                log[i].t = "pod_event" /\ log[i].node = b /\ log[i].flag


\* the last pass passed AnimFrame to the root
AnimFramePassed == ret.pass = "lifecycle" /\ ret.event.kind = "AnimFrame"

\* the widget of pod n asked for an animation frame inside a lifecycle handler
AskedAnim(lg, n) ==
    \E i \in 1 .. Len(lg) :
        lg[i].t = "lc_call" /\ lg[i].node = n /\ lg[i].ev.op = "request_anim_frame"

\* C14: a pod's widget gets AnimFrame if and only if the pod's request_anim
\* was set when the event arrived at the pod; the flag is clear while the
\* widget handles the event; and when the pod's call returns the flag is set
\* exactly when the pod's widget or a widget below it asked for another frame
\* during the pass
C14_AnimFrame ==
    AnimFramePassed =>
        /\ \A i \in 1 .. Len(log) :
              log[i].t = "pod_lifecycle" =>
                  (Notifications(log, log[i].node, "AnimFrame") > 0 <=> log[i].flag)
        /\ \A i \in 1 .. Len(log) :
              (log[i].t = "lifecycle" /\ log[i].ev.kind = "AnimFrame") => ~log[i].flag
        /\ \A i \in 1 .. Len(log) :
              log[i].t = "lifecycle_return" =>
                  /\ log[i].flag
                        <=> \E m \in {log[i].node} \cup Descendants(log[i].node) : AskedAnim(log, m)
                  /\ state[log[i].node].request_anim = log[i].flag
        /\ \A n \in Nodes : Notifications(log, n, "AnimFrame") <= 1

\* C14 witness: an AnimFrame pass that reached a widget which asked again (its
\* flag is set after the return, and its parent's) and a widget which did
\* not (its flag is clear), and passed by a pod that had not asked
C14_Witness ==
    /\ AnimFramePassed
    /\ \E a, b, c \in Nodes :
          /\ IsLeaf(a) /\ IsLeaf(b)
          /\ Notifications(log, a, "AnimFrame") = 1 /\ AskedAnim(log, a) /\ state[a].request_anim
          /\ Notifications(log, b, "AnimFrame") = 1 /\ ~AskedAnim(log, b) /\ ~state[b].request_anim
          /\ a \in Descendants(c) /\ ~AskedAnim(log, c) /\ state[c].request_anim


\* C15 (as claimed): a request_anim flag that is set on a pod stays set through
\* every pass that is not an AnimFrame pass
C15_AnimSticky ==
    [][\A n \in Nodes :
         (state[n].request_anim /\ ~(ret'.pass = "lifecycle" /\ ret'.event.kind = "AnimFrame"))
             => state'[n].request_anim]_vars


(***************************************************************************)
(* SpecSurface: paint passes over a render surface whose save and restore  *)
(* may fail                                                                *)
(***************************************************************************)
InitSurface ==
    \E sc \in {SceneFlat, SceneNested, SceneMixed} :
        \E cast \in Casts(sc, {"Passive"}, {"Passive", "Eager"}) : InitScene(sc, cast)

\* the regions of a surface pass: everything, and one strip
SurfaceRegions == {Strip(0, 6), Strip(2, 4)}

\* a pass whose save fails at the pods in sf and whose restore fails at the
\* pods in rf, having popped the saved state or not
SurfaceScript(sf, rf, pops) ==
    [Pass(0, 0) EXCEPT !.save_fail = sf, !.restore_fail = rf, !.restore_pops = pops]

SurfacePass ==
    \E region \in SurfaceRegions : \E always, pops \in BOOLEAN :
        \E sf, rf \in {{}} \cup {{n} : n \in Nodes} :
            /\ rf = {} => ~pops
            /\ PaintDone(PaintWithOffsetImpl(PaintWorld,
                                             PaintCtx(region, 0, focus_widget, TheWindow),
                                             Root, always, SurfaceScript(sf, rf, pops)),
                         region, always, SurfaceScript(sf, rf, pops))
            /\ UNCHANGED <<tree, widget, focus_widget>>

NextSurface == SurfacePass

SpecSurface == InitSurface /\ [][NextSurface]_vars

\* the indices of the log at which pod n made this call of the render context
SurfaceCalls(lg, n, op) == {i \in 1 .. Len(lg) : lg[i].t = op /\ lg[i].node = n}

\* the entry of the return of the call of paint_with_offset_impl logged at i
ReturnOf(lg, i) ==
    CHOOSE j \in 1 .. Len(lg) : j > i /\ lg[j].t = "paint_return" /\ lg[j].node = lg[i].node

\* what a call of paint_with_offset_impl does apart from what it leaves on
\* the surface: a skipped pod touches nothing; a pod whose save fails applies
\* no transform, paints nothing and issues no restore; a pod whose save
\* succeeds applies one transform, paints once and issues one restore, after
\* its widget's paint; and a painted container's children are all called
PaintSteps ==
    ret.pass = "paint" =>
        \A i \in 1 .. Len(log) :
            log[i].t = "pod_paint" =>
                LET n == log[i].node
                    hit == Overlaps(log[i].ev, state[n].layout_rect)
                    skipped == ~log[i].flag /\ ~hit
                    saves == SurfaceCalls(log, n, "save")
                    restores == SurfaceCalls(log, n, "restore")
                    paints == SurfaceCalls(log, n, "paint")
                IN /\ skipped =>
                        /\ saves = {} /\ restores = {} /\ paints = {}
                        /\ SurfaceCalls(log, n, "transform") = {}
                        /\ ReturnOf(log, i) = i + 1
                   /\ (~skipped /\ n \in ret.ps.save_fail) =>
                        /\ Cardinality(saves) = 1 /\ restores = {} /\ paints = {}
                        /\ SurfaceCalls(log, n, "transform") = {}
                   /\ (~skipped /\ n \notin ret.ps.save_fail) =>
                        /\ Cardinality(saves) = 1 /\ Cardinality(paints) = 1
                        /\ Cardinality(restores) = 1
                        /\ Cardinality(SurfaceCalls(log, n, "transform")) = 1
                        /\ \A p \in paints : \A r \in restores : p < r /\ ReturnOf(log, i) = r + 1
                        /\ \A c \in Nodes :
                              tree[c] = n => \E k \in 1 .. Len(log) :
                                  log[k].t = "pod_paint" /\ log[k].node = c

\* C16 (as claimed): when a call of paint_with_offset or
\* paint_with_offset_always returns, the render surface's save-stack depth and
\* transform are those at entry, on every exit path; and the call does the
\* steps above
C16_SurfaceBalanced ==
    /\ PaintSteps
    /\ ret.pass = "paint" =>
          \A i \in 1 .. Len(log) :
              log[i].t = "pod_paint" => log[ReturnOf(log, i)].st = log[i].st


\* the pods whose update was called in the pass logged in lg with no snapshot
\* to compare with
Unadded(lg) == {lg[i].node : i \in {k \in 1 .. Len(lg) : lg[k].t = "pod_update" /\ lg[k].ev.old = None}}

\* the caller's context when the update of pod n started and when it returned
UpdateCtxAt(lg, n, t) == lg[CHOOSE i \in 1 .. Len(lg) : lg[i].t = t /\ lg[i].node = n].st

\* C17: an update that reaches a pod with no data snapshot does not call the
\* widget's update: it stores the data and the environment as the pod's
\* snapshot, leaves the caller's context and the pod's bookkeeping state as
\* they were, and returns; and the first later update that reaches the pod
\* with different data calls the widget's update with the stored data as the
\* old data
C17_UpdateNoSnapshot ==
    [][ret'.pass = "update" =>
         /\ \A n \in Unadded(log') :
               /\ old_data[n] = None
               /\ ~GotUpdate(log', n)
               /\ old_data'[n] = ret'.data /\ env'[n] = ret'.env
               /\ state'[n] = state[n]
               /\ UpdateCtxAt(log', n, "update_return") = UpdateCtxAt(log', n, "pod_update")
               /\ \A c \in Descendants(n) :
                     \A i \in 1 .. Len(log') : log'[i].node # c
         /\ \A n \in Nodes :
               (/\ ret.pass = "update" /\ n \in Unadded(log)
                /\ ~DataSame(ret.data, ret'.data)
                /\ \E i \in 1 .. Len(log') : log'[i].t = "pod_update" /\ log'[i].node = n)
               => \E i \in 1 .. Len(log') :
                      /\ log'[i].t = "update" /\ log'[i].node = n
                      /\ log'[i].ev.old = ret.data /\ log'[i].ev.new = ret'.data]_vars

\* C17 witness: the update after the one that found the root without a
\* snapshot: the root's widget is updated with the stored data as old data,
\* and the pass finds a child without a snapshot in turn, with a context
\* whose flags are set
C17_Witness ==
    /\ ret.pass = "update" /\ ret.prev.pass = "update"
    /\ ~DataSame(ret.prev.data, ret.data)
    /\ \E i \in 1 .. Len(log) :
          log[i].t = "update" /\ log[i].node = Root /\ log[i].ev.old = ret.prev.data
    /\ \E n \in Unadded(log) :
          /\ n # Root /\ old_data[n] = ret.data
          /\ UpdateCtxAt(log, n, "pod_update").children_changed
          /\ UpdateCtxAt(log, n, "update_return").children_changed


(***************************************************************************)
(* SpecFocusCalls: the focus methods of EventCtx, called by any widget     *)
(* under any focus                                                         *)
(***************************************************************************)
InitFocusCalls ==
    \E sc \in {ScenePair, SceneNested} :
        \E cast \in Casts(sc, {"Passive"}, {"Passive"}) : InitScene(sc, cast)

\* the widget of pod n calls op on the EventCtx it was handed
CtxCall(n, op) ==
    /\ Commit(EventCall(Out(World, EventCtx(n, state[n].has_active, FALSE, focus_widget, TheWindow)),
                        n, Call(op)).w)
    /\ ret' = [pass |-> "call", op |-> op, node |-> n]

RequestFocusCall ==
    /\ \E n \in Nodes : CtxCall(n, "request_focus")
    /\ UNCHANGED <<tree, widget, focus_widget>>

FocusNextCall ==
    /\ \E n \in Nodes : CtxCall(n, "focus_next")
    /\ UNCHANGED <<tree, widget, focus_widget>>

FocusPrevCall ==
    /\ \E n \in Nodes : CtxCall(n, "focus_prev")
    /\ UNCHANGED <<tree, widget, focus_widget>>

ResignFocusCall ==
    /\ \E n \in Nodes : CtxCall(n, "resign_focus")
    /\ UNCHANGED <<tree, widget, focus_widget>>

\* the host gives the focus to a widget, or to none
HostFocus ==
    /\ \E new \in Nodes \cup {NoId} : new # focus_widget /\ focus_widget' = new
    /\ Commit(World)
    /\ ret' = [pass |-> "focus"]
    /\ UNCHANGED <<tree, widget>>

NextFocusCalls == RequestFocusCall \/ FocusNextCall \/ FocusPrevCall \/ ResignFocusCall \/ HostFocus

SpecFocusCalls == InitFocusCalls /\ [][NextFocusCalls]_vars

\* the focus change each guarded method asks for
ChangeOf(op) ==
    CASE op = "focus_next" -> FocusNext
      [] op = "focus_prev" -> FocusPrevious
      [] op = "resign_focus" -> FocusResign

\* C18: focus_next, focus_prev and resign_focus set the caller's pending
\* focus request (to Next, Previous, Resign) only when the caller's id is the
\* focused widget's, and change nothing otherwise; request_focus sets the
\* pending request to Focus(own id) whoever holds the focus; no call changes
\* anything else
C18_FocusCalls ==
    [][ret'.pass = "call" =>
         /\ ret'.op \in {"focus_next", "focus_prev", "resign_focus"} =>
               IF focus_widget = state[ret'.node].id
               THEN state' = [state EXCEPT ![ret'.node].request_focus = ChangeOf(ret'.op)]
               ELSE state' = state
         /\ ret'.op = "request_focus" =>
               state' = [state EXCEPT ![ret'.node].request_focus = FocusFocus(state[ret'.node].id)]
         /\ UNCHANGED <<old_data, env, command_queue, surface, focus_widget>>]_vars

\* C18 witness: a widget that does not hold the focus called focus_next; its
\* earlier request for the focus is still pending, and the focused widget's
\* resign request is too
C18_Witness ==
    /\ ret.pass = "call" /\ ret.op = "focus_next"
    /\ focus_widget # NoId /\ focus_widget # state[ret.node].id
    /\ state[ret.node].request_focus = FocusFocus(state[ret.node].id)
    /\ state[focus_widget].request_focus = FocusResign


\* the last pass passed RouteFocusChanged to the root
RoutePassed == ret.pass = "lifecycle" /\ ret.event.kind = "RouteFocusChanged"

\* the widget of pod n got the lifecycle event e
GotLifecycle(lg, n, e) == \E i \in 1 .. Len(lg) : lg[i].t = "lifecycle" /\ lg[i].node = n /\ lg[i].ev = e

\* C19 (as claimed): a pod called with RouteFocusChanged whose id is the old
\* or the new target hands its widget FocusChanged (false for old, true for
\* new) and not the RouteFocusChanged; a pod that is neither hands its widget the
\* RouteFocusChanged if and only if its registered child set holds the old or
\* the new id, and no FocusChanged; hence a target at any depth is reached
\* and a pod off the paths to the targets gets nothing
C19_RouteGate ==
    RoutePassed =>
        /\ \A i \in 1 .. Len(log) :
              (log[i].t = "pod_lifecycle" /\ log[i].ev.kind = "RouteFocusChanged") =>
                  LET n == log[i].node
                      old == log[i].ev.old
                      new == log[i].ev.new
                  IN /\ state[n].id = old => GotFocusChanged(log, n, FALSE)
                     /\ state[n].id = new => GotFocusChanged(log, n, TRUE)
                     /\ state[n].id \in {old, new} => ~GotLifecycle(log, n, log[i].ev)
                     /\ state[n].id \notin {old, new} =>
                            /\ ~GotFocusChanged(log, n, FALSE) /\ ~GotFocusChanged(log, n, TRUE)
                            /\ GotLifecycle(log, n, log[i].ev)
                                  <=> \/ (old # NoId /\ BloomContains(state[n].children, old))
                                      \/ (new # NoId /\ BloomContains(state[n].children, new))
        /\ (RegistrationCurrent /\ PlainContainers) =>
              /\ ret.event.new # NoId => GotFocusChanged(log, ret.event.new, TRUE)
              /\ ret.event.old # NoId => GotFocusChanged(log, ret.event.old, FALSE)
              /\ \A n \in Nodes :
                    (/\ n \notin {ret.event.old, ret.event.new}
                     /\ \A t \in {ret.event.old, ret.event.new} \ {NoId} : n \notin Ancestors(t))
                    => ~GotFocusNote(log, n)


(***************************************************************************)
(* SpecResolve: widgets asking for a focus change in event passes and the  *)
(* host resolving each request right after the pass                        *)
(***************************************************************************)
InitResolve ==
    \E sc \in {ScenePair, SceneNested} :
        \E cast \in Casts(sc, {"Passive", "TextBox"}, {"Passive"}) : InitScene(sc, cast)

\* the request the last event pass left in the root context's BaseState
Reported == IF ret.pass = "event" THEN state[0].request_focus ELSE NoFocusChange

\* the pods that hold a pending focus request
Pending == {n \in Nodes : state[n].request_focus # NoFocusChange}

ResolveRegisterPass ==
    /\ Reported = NoFocusChange
    /\ LifecyclePass(LcRegister, RootLifeCycleCtx(BloomNew, TRUE), Pass(0, 0))
    /\ UNCHANGED <<tree, widget, focus_widget>>

ResolvePointerPass ==
    /\ Reported = NoFocusChange
    /\ \E p \in Points : EventPass(EvMouseDown(p), Pass(0, 0))
    /\ UNCHANGED <<tree, widget, focus_widget>>

ResolveKeyPass ==
    /\ Reported = NoFocusChange
    /\ EventPass(EvKeyDown, Pass(0, 0))
    /\ UNCHANGED <<tree, widget, focus_widget>>

\* the widgets the host may give the focus to for a request
FocusCandidates(req) ==
    CASE req.kind = "Focus" -> {req.id}
      [] req.kind = "Resign" -> {NoId}
      [] OTHER -> Nodes \cup {NoId}

ResolveDone(r, event, req, pending) ==
    /\ Commit(r.w)
    /\ ret' = [pass |-> "lifecycle", event |-> event, ctx |-> r.ctx,
               request |-> req, pending |-> pending]

\* the host resolves the request the event pass reported: it passes
\* RouteFocusChanged with the old and the new focus to the root and records
\* the new focus
ResolvePass ==
    /\ Reported # NoFocusChange
    /\ \E new \in FocusCandidates(Reported) :
          /\ ResolveDone(PodLifecycle(Out(World, RootLifeCycleCtx(BloomNew, FALSE)), Root,
                                      LcRouteFocusChanged(focus_widget, new), Pass(0, 0)),
                         LcRouteFocusChanged(focus_widget, new), Reported, Pending)
          /\ focus_widget' = new
    /\ UNCHANGED <<tree, widget>>

NextResolve == ResolveRegisterPass \/ ResolvePointerPass \/ ResolveKeyPass \/ ResolvePass

SpecResolve == InitResolve /\ [][NextResolve]_vars

FocusOps == {"request_focus", "focus_next", "focus_prev", "resign_focus"}

\* C20: after the host has passed the RouteFocusChanged that resolves a
\* reported focus request to the root, no pod of the tree holds a pending
\* request_focus, and the event pass after it reports a request to the host
\* only if a widget asked in that pass
C20_RequestCleared ==
    [][/\ (ret'.pass = "lifecycle" /\ ret'.event.kind = "RouteFocusChanged")
             => \A n \in Nodes : state'[n].request_focus = NoFocusChange
       /\ (ret.pass = "lifecycle" /\ ret.event.kind = "RouteFocusChanged" /\ ret'.pass = "event")
             => (state'[0].request_focus # NoFocusChange
                    => \E n \in Nodes : \E op \in FocusOps : Called(log', n, op))]_vars

\* C20 witness: the pass that resolved the request of a leaf two levels down,
\* which the leaf and both its ancestors held, while another widget had the
\* focus; nothing is pending after it
C20_Witness ==
    /\ ret.pass = "lifecycle" /\ ret.event.kind = "RouteFocusChanged"
    /\ ret.request.kind = "Focus"
    /\ ret.event.old \notin {NoId, ret.event.new}
    /\ Cardinality(Ancestors(ret.request.id)) = 2
    /\ ret.pending = {ret.request.id} \cup Ancestors(ret.request.id)
    /\ Pending = {}


(***************************************************************************)
(* SpecIds: Register and update passes over widgets that call their        *)
(* context before and after they forward to their children                 *)
(***************************************************************************)
InitIds ==
    \E sc \in {ScenePair, SceneNested, SceneMixed} :
        \E cast \in Casts(sc, {"Passive", "TextBox"}, {"Passive", "Late"}) : InitScene(sc, cast)

\* the child sets a caller's context may hold when it calls the root: empty,
\* or with the id of a widget registered before
CallerSets == {BloomNew, BloomAdd(BloomNew, Len(tree) + 1)}

IdsRegisterPass ==
    /\ \E pre \in CallerSets : LifecyclePass(LcRegister, RootLifeCycleCtx(pre, TRUE), Pass(0, 0))
    /\ UNCHANGED <<tree, widget, focus_widget>>

\* a lifecycle call with an event that is not Register
IdsNotePass ==
    /\ \E pre \in CallerSets : \E event \in {LcAnimFrame, LcHotChanged(TRUE), LcFocusChanged(TRUE)} :
          LifecyclePass(event, RootLifeCycleCtx(pre, FALSE), Pass(0, 0))
    /\ UNCHANGED <<tree, widget, focus_widget>>

IdsUpdatePass ==
    /\ \E data \in 0 .. 1 :
          UpdateDone(PodUpdate(Out(World, RootUpdateCtx(FALSE, FALSE)), Root, Pass(data, 0)),
                     data, 0, RootUpdateCtx(FALSE, FALSE))
    /\ UNCHANGED <<tree, widget, focus_widget>>

IdsPointerPass ==
    /\ \E p \in Points : EventPass(EvMouseMoved(p), Pass(0, 0))
    /\ UNCHANGED <<tree, widget, focus_widget>>

NextIds == IdsRegisterPass \/ IdsNotePass \/ IdsUpdatePass \/ IdsPointerPass

SpecIds == InitIds /\ [][NextIds]_vars

\* the pods whose widgets called register_for_focus, in the order of the calls
FocusCallers(lg) ==
    LET calls == SelectSeq(lg, LAMBDA e : e.t = "lc_call" /\ e.ev.op = "register_for_focus")
    IN [i \in 1 .. Len(calls) |-> state[calls[i].node].id]

\* C21 (as claimed): in lifecycle and update passes the context's widget_id
\* is, at every call a widget makes on its context, the id of the pod that
\* wraps the widget, and register_for_focus records the caller's own id
C21_WidgetIdOwn ==
    /\ \A i \in 1 .. Len(log) :
          log[i].t \in {"lc_call", "up_call"} => log[i].id = state[log[i].node].id
    /\ (ret.pass = "lifecycle" /\ ret.event.kind = "Register")
          => ret.ctx.focus_widgets = FocusCallers(log)


(***************************************************************************)
(* SpecFlags: lifecycle and update passes over widgets that raise the      *)
(* context's flags, started with contexts whose flags are already set      *)
(***************************************************************************)
InitFlags ==
    \E sc \in {ScenePair, SceneNested} :
        \E cast \in Casts(sc, {"Passive", "Spinner", "Grower"}, {"Passive", "Grower"}) :
            InitScene(sc, cast)

FlagsRegisterPass ==
    /\ \E cc \in BOOLEAN :
          LifecyclePass(LcRegister, RootLifeCycleCtx(BloomAdd(BloomNew, Len(tree) + 1), cc),
                        Pass(0, 0))
    /\ UNCHANGED <<tree, widget, focus_widget>>

FlagsPointerPass ==
    /\ EventPass(EvMouseDown(Pt(3, 1)), Pass(0, 0))
    /\ UNCHANGED <<tree, widget, focus_widget>>

\* the animation tick, with a context whose flags the host may have set
FlagsAnimPass ==
    /\ \E ni, ra \in BOOLEAN :
          LifecyclePass(LcAnimFrame,
                        [RootLifeCycleCtx(BloomNew, FALSE) EXCEPT !.needs_inval = ni,
                                                                  !.request_anim = ra],
                        Pass(0, 0))
    /\ UNCHANGED <<tree, widget, focus_widget>>

FlagsUpdatePass ==
    /\ \E data \in 0 .. 1 : \E cc, ni \in BOOLEAN :
          UpdateDone(PodUpdate(Out(World, RootUpdateCtx(cc, ni)), Root, Pass(data, 0)),
                     data, 0, RootUpdateCtx(cc, ni))
    /\ UNCHANGED <<tree, widget, focus_widget>>

NextFlags == FlagsRegisterPass \/ FlagsPointerPass \/ FlagsAnimPass \/ FlagsUpdatePass

SpecFlags == InitFlags /\ [][NextFlags]_vars

\* the entry of the return of the pod call logged at i
CallReturn(lg, i, t) ==
    CHOOSE j \in i + 1 .. Len(lg) :
        /\ lg[j].t = t /\ lg[j].node = lg[i].node
        /\ \A k \in i + 1 .. j - 1 : ~(lg[k].t = t /\ lg[k].node = lg[i].node)

\* a widget made this call on the context between the log entries i and j
Raised(lg, i, j, t, op) == \E k \in i .. j : lg[k].t = t /\ lg[k].ev.op = op

\* C22: when a pod's lifecycle or update call returns, each accumulating flag
\* of the caller's context (needs_inval, children_changed, and request_anim
\* in the lifecycle pass) is its value before the call or-ed with whether a
\* widget of the pod's subtree raised it during the call
C22_FlagsAccumulate ==
    \A i \in 1 .. Len(log) :
        /\ log[i].t = "pod_lifecycle" =>
              LET j == CallReturn(log, i, "lifecycle_return")
              IN /\ log[j].st.needs_inval
                       <=> (log[i].st.needs_inval \/ Raised(log, i, j, "lc_call", "invalidate"))
                 /\ log[j].st.children_changed
                       <=> (log[i].st.children_changed
                               \/ Raised(log, i, j, "lc_call", "children_changed"))
                 /\ log[j].st.request_anim
                       <=> (log[i].st.request_anim
                               \/ Raised(log, i, j, "lc_call", "request_anim_frame"))
        /\ log[i].t = "pod_update" =>
              LET j == CallReturn(log, i, "update_return")
              IN /\ log[j].st.needs_inval
                       <=> (log[i].st.needs_inval \/ Raised(log, i, j, "up_call", "invalidate"))
                 /\ log[j].st.children_changed
                       <=> (log[i].st.children_changed
                               \/ Raised(log, i, j, "up_call", "children_changed"))

\* C22 witness: a lifecycle pass in which a leaf two levels down raised a flag
\* that the root's context did not have, the call of its sibling after it
\* returned with the flag still set, and the root's caller sees it; and the
\* caller's own flag, set before the pass, is still set
C22_Witness ==
    /\ ret.pass = "lifecycle" /\ ret.event.kind = "AnimFrame"
    /\ ~ret.ctx0.request_anim /\ ret.ctx.request_anim
    /\ ret.ctx0.needs_inval /\ ret.ctx.needs_inval
    /\ \E i \in 1 .. Len(log) :
          /\ log[i].t = "lc_call" /\ log[i].ev.op = "request_anim_frame"
          /\ Cardinality(Ancestors(log[i].node)) = 2
          /\ \E k \in i + 1 .. Len(log) :
                /\ log[k].t = "lifecycle_return" /\ IsLeaf(log[k].node)
                /\ log[k].node # log[i].node /\ log[k].st.request_anim


\* every id the filter a answers for, b answers for
BloomWithin(a, b) == a.bits \subseteq b.bits

\* C23 (as claimed): the ids in the context's child set when a pod's lifecycle
\* call starts are in it when the call returns, for every event; for Register
\* the pod's id and its descendants' are added, for every other event the set
\* is as it was
C23_ChildSetKept ==
    \A i \in 1 .. Len(log) :
        log[i].t = "pod_lifecycle" =>
            LET j == CallReturn(log, i, "lifecycle_return")
                n == log[i].node
            IN /\ BloomWithin(log[i].st.children, log[j].st.children)
               /\ log[i].ev.kind = "Register" =>
                     /\ BloomContains(log[j].st.children, state[n].id)
                     /\ AllForward =>
                           \A d \in Descendants(n) : BloomContains(log[j].st.children, state[d].id)
               /\ log[i].ev.kind # "Register" => log[j].st.children = log[i].st.children


(***************************************************************************)
(* SpecRequests: several widgets asking for the focus in one event pass    *)
(***************************************************************************)
InitRequests ==
    \E sc \in {ScenePair, SceneFlat, SceneNested} :
        \E cast \in Casts(sc, {"Passive", "TextBox", "Grabber"}, {"Passive", "Grabber"}) :
            InitScene(sc, cast)

RequestsCommandPass ==
    /\ Reported = NoFocusChange
    /\ EventPass(EvCommand(0), Pass(0, 0))
    /\ UNCHANGED <<tree, widget, focus_widget>>

NextRequests == RequestsCommandPass \/ ResolvePointerPass \/ ResolvePass

SpecRequests == InitRequests /\ [][NextRequests]_vars

\* the children of pod n that hold a pending focus request in st
Requesters(st, n) == SelectSeq(Children(n), LAMBDA c : st[c].request_focus # NoFocusChange)

\* C24: after an event pass a pod's pending focus request is its widget's own
\* if the widget asked before it forwarded, else the request that was pending
\* on it before, else the request of the first of its children, in dispatch
\* order, that holds one; the root context reports the root pod's
C24_FirstRequestWins ==
    [][ret'.pass = "event" =>
         /\ \A n \in Nodes :
               state'[n].request_focus =
                   IF Called(log', n, "request_focus") THEN FocusFocus(state[n].id)
                   ELSE IF state[n].request_focus # NoFocusChange THEN state[n].request_focus
                   ELSE IF Requesters(state', n) # <<>>
                        THEN state'[Head(Requesters(state', n))].request_focus
                   ELSE NoFocusChange
         /\ state'[0].request_focus = state'[Root].request_focus]_vars

\* C24 witness: a command pass in which three sibling leaves all asked for the
\* focus; their parent holds the first one's request and the host is told so
C24_Witness ==
    /\ ret.pass = "event" /\ ret.event.kind = "Command"
    /\ tree = SceneFlat.tree
    /\ \A n \in {2, 3, 4} : Called(log, n, "request_focus") /\ state[n].request_focus = FocusFocus(n)
    /\ ~Called(log, Root, "request_focus")
    /\ state[Root].request_focus = FocusFocus(2)
    /\ state[0].request_focus = FocusFocus(2)


(***************************************************************************)
(* Claims on the order of HotChanged and the pointer event                 *)
(***************************************************************************)
\* the places in lg where the widget of pod n got HotChanged(TRUE)
HotNotes(lg, n) ==
    {i \in 1 .. Len(lg) : lg[i].t = "lifecycle" /\ lg[i].node = n /\ lg[i].ev = LcHotChanged(TRUE)}

\* the places in lg where the widget of pod n got the event through Widget::event
EventPlaces(lg, n) == {i \in 1 .. Len(lg) : lg[i].t = "event" /\ lg[i].node = n}

SizePass ==
    /\ EventPass(EvSize, Pass(0, 0))
    /\ UNCHANGED <<tree, widget, focus_widget>>

NextSize == SizePass \/ HoverPass

SpecSize == InitPointer /\ [][NextSize]_vars

\* C26: a Resize event is delivered only to the widget of the pod the host
\* calls with the root context; the contexts pods build are not root
\* contexts, so no widget below gets it, whatever the containers forward
C26_SizeRootOnly ==
    \A i \in 1 .. Len(log) :
        /\ (log[i].t = "event" /\ log[i].ev.kind = "Size") => log[i].node = Root
        /\ (log[i].t = "pod_event" /\ log[i].ev.kind = "Size" /\ log[i].node # Root)
               => log[i].id # 0

\* C26 witness: a Resize pass in which the root's widget got the event and
\* forwarded it to all its child pods, none of whose widgets got it
C26_Witness ==
    /\ ret.pass = "event" /\ ret.event.kind = "Size"
    /\ Delivered(log, Root, "Size")
    /\ \A c \in Nodes \ {Root} :
          /\ \E i \in 1 .. Len(log) : log[i].t = "pod_event" /\ log[i].node = c
          /\ ~Delivered(log, c, "Size")
    /\ Cardinality(Nodes) >= 3


(***************************************************************************)
(* Claims on lazy initialization                                           *)
(***************************************************************************)
\* the places in lg where the widget of pod n handled an event, or a
\* lifecycle event other than WidgetAdded
Handlings(lg, n) ==
    {j \in 1 .. Len(lg) :
        /\ lg[j].node = n
        /\ \/ lg[j].t = "event"
           \/ lg[j].t = "lifecycle" /\ lg[j].ev.kind # "WidgetAdded"}

\* C27 (as claimed): in an event or lifecycle pass of any kind, a widget
\* whose pod had no snapshot handles nothing before it got WidgetAdded, and
\* the pod has its snapshot when the pass is over
C27_LazyInit ==
    [][ret'.pass \in {"event", "lifecycle"} =>
          \A n \in Nodes :
              (old_data[n] = None /\ Handlings(log', n) # {}) =>
                  /\ old_data'[n] # None
                  /\ \A j \in Handlings(log', n) :
                        \E i \in 1 .. (j - 1) :
                            /\ log'[i].t = "lifecycle" /\ log'[i].node = n
                            /\ log'[i].ev.kind = "WidgetAdded"]_vars


(***************************************************************************)
(* Claims on the visible region a widget paints with                       *)
(***************************************************************************)
\* rectangle a lies within rectangle b
RectWithin(a, b) == a.x0 >= b.x0 /\ a.y0 >= b.y0 /\ a.x1 <= b.x1 /\ a.y1 <= b.y1

\* the region the caller's context held when pod n was painted before place i
CallerRegion(lg, n, i) ==
    lg[CHOOSE j \in 1 .. i : lg[j].t = "pod_paint" /\ lg[j].node = n].ev

\* C28 (as claimed): the visible region the widget of a pod in view paints
\* with is its caller's region clipped to the pod's layout rectangle, in the
\* pod's coordinates; it lies within the pod's own bounds
C28_RegionClipped ==
    ret.pass = "paint" =>
        \A i \in 1 .. Len(log) :
            (/\ log[i].t = "paint"
             /\ RegionIntersects(CallerRegion(log, log[i].node, i),
                                  state[log[i].node].layout_rect)) =>
                /\ log[i].ev = RectSub(RectIntersect(CallerRegion(log, log[i].node, i),
                                                     state[log[i].node].layout_rect),
                                       RectOrigin(state[log[i].node].layout_rect))
                /\ RectWithin(log[i].ev,
                              RectSub(state[log[i].node].layout_rect,
                                      RectOrigin(state[log[i].node].layout_rect)))


(***************************************************************************)
(* Claims on how often WidgetAdded arrives                                 *)
(***************************************************************************)
\* C29 (as claimed): under containers that forward every lifecycle event, a
\* pass delivers WidgetAdded to a widget at most once, and not at all when
\* its pod already has its snapshot
C29_AddedOnce ==
    [][(PlainContainers /\ ret'.pass \in {"event", "lifecycle", "update"}) =>
          \A n \in Nodes :
              Notifications(log', n, "WidgetAdded") <= (IF old_data[n] = None THEN 1 ELSE 0)]_vars


(***************************************************************************)
(* SpecAdded: event passes over pods that have no snapshot yet, with       *)
(* widgets that invalidate when they are told WidgetAdded                  *)
(***************************************************************************)
InitAdded ==
    \E sc \in {ScenePair, SceneFlat} :
        \E cast \in Casts(sc, {"Passive", "Opaque", "Grower"}, {"Passive", "Grower"}) :
            InitScene(sc, cast)

AddedCommandPass ==
    /\ EventPass(EvCommand(0), Pass(0, 0))
    /\ UNCHANGED <<tree, widget, focus_widget>>

AddedPointerPass ==
    /\ \E p \in Points : EventPass(EvMouseDown(p), Pass(0, 0))
    /\ UNCHANGED <<tree, widget, focus_widget>>

AddedRegisterPass ==
    /\ LifecyclePass(LcRegister, RootLifeCycleCtx(BloomNew, TRUE), Pass(0, 0))
    /\ UNCHANGED <<tree, widget, focus_widget>>

NextAdded == AddedCommandPass \/ AddedPointerPass \/ AddedRegisterPass

SpecAdded == InitAdded /\ [][NextAdded]_vars

\* the widget of pod n invalidated while it handled WidgetAdded: it called
\* invalidate on a LifeCycleCtx in a pass that sent it no HotChanged
InvalidatedOnAdded(lg, n) ==
    /\ \E i \in 1 .. Len(lg) :
          lg[i].t = "lc_call" /\ lg[i].node = n /\ lg[i].ev.op = "invalidate"
    /\ Notifications(lg, n, "WidgetAdded") > 0
    /\ Notifications(lg, n, "HotChanged") = 0

\* C30 (as claimed): when the widget of a pod with no snapshot invalidates
\* during the WidgetAdded sent at the start of the pod's event call, the
\* BaseState of the caller's context has needs_inval set after the call
C30_AddedInvalKept ==
    [][ret'.pass = "event" =>
          \A n \in Nodes :
              (old_data[n] = None /\ InvalidatedOnAdded(log', n)) =>
                  state'[tree[n]].needs_inval]_vars


(***************************************************************************)
(* SpecTimers: widgets at every depth asking for timers, and the timer     *)
(* firing                                                                  *)
(***************************************************************************)
InitTimers ==
    \E sc \in {ScenePair, SceneNested, SceneMixed} :
        \E cast \in Casts(sc, {"Passive", "Clock", "Ticker"}, {"Passive", "Clock"}) :
            InitScene(sc, cast)

TimersPointerPass ==
    /\ \E p \in Points : EventPass(EvMouseDown(p), Pass(0, 0))
    /\ UNCHANGED <<tree, widget, focus_widget>>

NextTimers == TimersPointerPass \/ TimerPass

SpecTimers == InitTimers /\ [][NextTimers]_vars

\* the request_timer flag of pod n is set on all its ancestors and on the
\* BaseState of the host's context
TimerReachable(st, n) ==
    st[n].request_timer => (st[0].request_timer /\ \A a \in Ancestors(n) : st[a].request_timer)

\* some widget marked the event of the pass handled
SomeHandled(lg) == \E i \in 1 .. Len(lg) : lg[i].t = "call" /\ lg[i].ev.op = "set_handled"

\* C31: after every event pass a pod's request_timer flag is set on all its
\* ancestors up to the root state; and a Timer pass in which no widget marks
\* the event handled delivers it to the widget of every pod whose flag was set
C31_TimerReachable ==
    [][ret'.pass = "event" =>
          /\ \A n \in Nodes : TimerReachable(state', n)
          /\ (ret'.event.kind = "Timer" /\ ~SomeHandled(log')) =>
                 \A n \in Nodes : state[n].request_timer => Delivered(log', n, "Timer")]_vars

\* C31 witness: a Timer pass over a nested tree in which two leaves of
\* different depth that had asked for a timer both got the event
C31_Witness ==
    /\ ret.pass = "event" /\ ret.event.kind = "Timer"
    /\ ~SomeHandled(log)
    /\ \E n, m \in Nodes :
          /\ IsLeaf(n) /\ IsLeaf(m)
          /\ Cardinality(Ancestors(n)) < Cardinality(Ancestors(m))
          /\ widget[n] = "Clock" /\ widget[m] = "Clock"
          /\ Delivered(log, n, "Timer") /\ Delivered(log, m, "Timer")
          /\ \A a \in Ancestors(m) : state[a].request_timer /\ Delivered(log, a, "Timer")
    /\ state[0].request_timer

====
